---------------------------- MODULE Spec2Model ----------------------------
(***************************************************************************)
(* Model of the exam-appointment scraper (package main): the extraction   *)
(* of summary records from the initial listing, the concurrent per-record *)
(* enrichment goroutines of main with their worker-pool semaphore and     *)
(* WaitGroup, and the final sort and serialization.                       *)
(*                                                                         *)
(* Representation of text.  A Go string is modelled as a sequence of      *)
(* tokens: the whitespace characters " ", "\t", "\n" are tokens of their  *)
(* own and every maximal run of non-whitespace characters (a word) is one *)
(* token.  "" is << >>.  What the code asks of a word (does it contain a  *)
(* '.', which city names occur in it, how does it compare) is given by    *)
(* tables over the words of the model.                                    *)
(***************************************************************************)
EXTENDS Integers, Sequences, FiniteSets, TLC

(***************************************************************************)
(* Bounds of the model.                                                    *)
(***************************************************************************)
\* most summary records the initial listing holds under Spec
MaxExams == 3
\* tasks still waiting for a pool slot in the saturated-pool scenario SpecPool
PoolWaiting == 1

(***************************************************************************)
(* Program constants.                                                      *)
(***************************************************************************)
maxWorkers == 10
MinTableText == 50
MaxNodeText == 200
MaxValueText == 100

(***************************************************************************)
(* strings: TrimSpace, ReplaceAll and the cell normalisation               *)
(***************************************************************************)
WS == {" ", "\t", "\n"}

RECURSIVE TrimLeft(_)
TrimLeft(t) ==
    IF t = << >> THEN << >>
    ELSE IF Head(t) \in WS THEN TrimLeft(Tail(t)) ELSE t

RECURSIVE TrimRight(_)
TrimRight(t) ==
    IF t = << >> THEN << >>
    ELSE IF t[Len(t)] \in WS THEN TrimRight(SubSeq(t, 1, Len(t) - 1)) ELSE t

TrimSpace(t) == TrimRight(TrimLeft(t))

\* strings.ReplaceAll(t, "\t", " ") followed by strings.ReplaceAll(t, "\n", " ")
ReplaceTabNewline(t) ==
    [k \in 1..Len(t) |-> IF t[k] \in {"\t", "\n"} THEN " " ELSE t[k]]

\* for strings.Contains(t, "  ") { t = strings.ReplaceAll(t, "  ", " ") }
RECURSIVE CollapseSpaces(_)
CollapseSpaces(t) ==
    IF Len(t) < 2 THEN t
    ELSE IF t[1] = " " /\ t[2] = " " THEN CollapseSpaces(Tail(t))
    ELSE <<t[1]>> \o CollapseSpaces(Tail(t))

NormalizeCell(raw) ==
    TrimSpace(CollapseSpaces(ReplaceTabNewline(TrimSpace(raw))))

\* the placeholder cell "-"
Dash == <<"-">>

(***************************************************************************)
(* What the code observes of the words of the model.                       *)
(***************************************************************************)
DateWords == {"25.10.2025,", "08.11.2025,", "31.02.2025,", "01.01.0001,"}
TimeWords == {"00:00", "08:00", "10:00"}
DotWords == DateWords \cup {"Nr.5"}
CommaWords == DateWords
ColonWords == TimeWords

cities == <<"augsburg", "bamberg", "freising", "münchen", "nürnberg",
            "regensburg", "rosenheim", "traunstein">>
regions == <<"oberbayern", "oberpfalz", "oberfranken", "mittelfranken", "schwaben">>

\* strings.ToLower(w), for the words whose lower case the code looks into
ToLowerWord(w) ==
    CASE w = "Augsburg" -> "augsburg"
      [] w = "Bamberg" -> "bamberg"
      [] w = "Freising" -> "freising"
      [] w = "München" -> "münchen"
      [] w = "Nürnberg" -> "nürnberg"
      [] w = "Regensburg" -> "regensburg"
      [] w = "Rosenheim" -> "rosenheim"
      [] w = "Traunstein" -> "traunstein"
      [] w = "Oberbayern" -> "oberbayern"
      [] w = "Oberpfalz" -> "oberpfalz"
      [] w = "Schwaben" -> "schwaben"
      [] w = "Frei" -> "frei"
      [] w = "Belegt" -> "belegt"
      [] w = "Freibad" -> "freibad"
      [] OTHER -> w

\* strings.Contains(w, sub) for a lower-cased word w and a sub without whitespace
WordContains(w, sub) ==
    \/ w = sub
    \/ w = "freising" /\ sub = "frei"
    \/ w = "freibad" /\ sub = "frei"

\* strings.Contains(strings.ToLower(cell), sub): sub holds no whitespace, so it
\* lies inside one word of the cell
ContainsLower(cell, sub) ==
    \E k \in 1..Len(cell) : WordContains(ToLowerWord(cell[k]), sub)

\* strings.Contains(cell, c) for one of the characters '.', ',' and ':'
ContainsChar(cell, words) == \E k \in 1..Len(cell) : cell[k] \in words

(***************************************************************************)
(* Row classification                                                      *)
(***************************************************************************)
cityCount(cell) ==
    Cardinality({k \in 1..Len(cities) : ContainsLower(cell, cities[k])})
  + Cardinality({k \in 1..Len(regions) : ContainsLower(cell, regions[k])})

\* a classification that counts the tokens of the whole row
isHeaderSeparatorByRow(cells) ==
    \/ Cardinality({k \in 1..Len(cities) :
                       \E c \in 1..Len(cells) : ContainsLower(cells[c], cities[k])})
       + Cardinality({k \in 1..Len(regions) :
                         \E c \in 1..Len(cells) : ContainsLower(cells[c], regions[k])}) > 2
    \/ \E c \in 1..Len(cells) :
          ContainsLower(cells[c], "frei") /\ ContainsLower(cells[c], "belegt")

isHeaderSeparatorRow(cells) ==
    \E k \in 1..Len(cells) :
        \/ cityCount(cells[k]) > 2
        \/ ContainsLower(cells[k], "frei") /\ ContainsLower(cells[k], "belegt")

isValidExamRow(cells) ==
    IF Len(cells) < 3 THEN FALSE
    ELSE LET firstCell == TrimSpace(cells[1])
             hasDatePattern == ContainsChar(firstCell, DotWords)
                               /\ ContainsChar(firstCell, CommaWords)
             hasTimePattern == ContainsChar(firstCell, ColonWords)
         IN  hasDatePattern /\ hasTimePattern


(***************************************************************************)
(* ExamAppointment                                                         *)
(***************************************************************************)
EmptyString == << >>

SummaryFields == {"DateTime", "Location", "City", "Region", "Status"}
DetailFields == {"ExamVenue", "Room", "PostalCode", "Street", "HouseNumber",
                 "ExamDate", "ExamStartTime", "Headphones", "WheelchairAccessible",
                 "MinParticipants", "MaxParticipants", "CurrentParticipants",
                 "DetailStatus"}

\* the zero value of the struct
ExamAppointment == [f \in SummaryFields \cup DetailFields |-> EmptyString]

(***************************************************************************)
(* Documents.  A listing document is                                       *)
(*   [flow, qs, forms, tables, inputs]                                     *)
(* flow: the session (cookie jar) the response was served to; every form  *)
(* action and input name of the document carries it, which says from      *)
(* which document a value was read.                                        *)
(* qs: the flow's numbers of the appointments the page lists (the flow's  *)
(* own book-keeping: no code reads it).                                    *)
(* forms: the form#pruefungsterminSearch elements, [hasAction, action].    *)
(* tables: [textLen, inside, rows], in document order; inside is the       *)
(* number of the table in whose last row this table lies, 0 for a table    *)
(* that lies in no other (a table follows the table it lies in).  A row is *)
(* [cells, buttons]: the raw texts of its td/th elements and the name      *)
(* attributes of its input[type=submit].select elements.                   *)
(* inputs: every input element, [hasName, name, type, value, checked].     *)
(***************************************************************************)
\* a form action: url "" is the empty string; ok says whether
\* "https://fischerpruefung-online.bayern.de" + url parses as a URL
NoAction == [url |-> "", flow |-> 0, ok |-> TRUE]
\* an input name; id "" is the empty string
NoName == [id |-> "", row |-> 0, flow |-> 0]

AllRows(doc) ==
    LET RECURSIVE rowsFrom(_)
        rowsFrom(k) == IF k > Len(doc.tables) THEN << >>
                       ELSE doc.tables[k].rows \o rowsFrom(k + 1)
    IN  rowsFrom(1)

\* doc.Find("form#pruefungsterminSearch").Each: the last form with an action
\* attribute sets formAction
FormActionOf(doc) ==
    LET with == {k \in 1..Len(doc.forms) : doc.forms[k].hasAction}
    IN  IF with = {} THEN NoAction
        ELSE doc.forms[CHOOSE k \in with : \A j \in with : j <= k].action

(***************************************************************************)
(* Extraction of the summary records (main)                                *)
(***************************************************************************)
\* strings.Contains(cellText, "Augsburg\tBamberg")
ContainsAugsburgTabBamberg(cell) ==
    \E k \in 2..(Len(cell) - 1) :
        cell[k - 1] = "Augsburg" /\ cell[k] = "\t" /\ cell[k + 1] = "Bamberg"

\* the cells main keeps of a row
ExtractCells(row) ==
    LET norm == [k \in 1..Len(row.cells) |-> NormalizeCell(row.cells[k])]
    IN  SelectSeq(norm, LAMBDA c : c # EmptyString /\ c # Dash
                                   /\ ~ContainsAugsburgTabBamberg(c))

\* a row test of the cell count and the date/time shape alone
IsExamRowByShape(cells) ==
    Len(cells) > 2 /\ isValidExamRow(cells)

IsExamRow(cells) ==
    Len(cells) > 2 /\ ~isHeaderSeparatorRow(cells) /\ isValidExamRow(cells)

\* exam := ExamAppointment{DateTime: cells[0], ... Region: cells[3]}; Status from
\* cells[4] when there are 5 cells
ExamOfCells(cells) ==
    [ExamAppointment EXCEPT !.DateTime = cells[1], !.Location = cells[2],
                            !.City = cells[3], !.Region = cells[4],
                            !.Status = IF Len(cells) >= 5 THEN cells[5]
                                       ELSE EmptyString]

\* table j lies in table k, at any depth
RECURSIVE LiesIn(_, _, _)
LiesIn(doc, j, k) ==
    LET up == doc.tables[j].inside
    IN  up # 0 /\ (up = k \/ LiesIn(doc, up, k))

\* table.Find("tr"): the tr elements below table k, those of the tables that lie
\* in it included, in document order
RowsUnder(doc, k) ==
    LET RECURSIVE rowsFrom(_)
        rowsFrom(j) ==
            IF j > Len(doc.tables) THEN << >>
            ELSE (IF j = k \/ LiesIn(doc, j, k)
                  THEN doc.tables[j].rows ELSE << >>) \o rowsFrom(j + 1)
    IN  rowsFrom(k)

\* doc.Find("table").Each: the rows main reads, table after table, of the tables
\* whose text is longer than the minimum
ExtractRows(doc) ==
    LET RECURSIVE rowsFrom(_)
        rowsFrom(k) ==
            IF k > Len(doc.tables) THEN << >>
            ELSE (IF doc.tables[k].textLen > MinTableText
                  THEN RowsUnder(doc, k) ELSE << >>) \o rowsFrom(k + 1)
    IN  rowsFrom(1)

ExamRowCells(doc) ==
    LET rows == ExtractRows(doc)
        cells == [k \in 1..Len(rows) |-> ExtractCells(rows[k])]
    IN  SelectSeq(cells, IsExamRow)

\* cells[3] of a row of 3 cells: index out of range, the program panics
ExtractPanics(doc) ==
    LET kept == ExamRowCells(doc)
    IN  \E k \in 1..Len(kept) : Len(kept[k]) < 4

examsOf(doc) ==
    LET kept == ExamRowCells(doc)
    IN  [k \in 1..Len(kept) |-> ExamOfCells(kept[k])]

(***************************************************************************)
(* findButtonForExam                                                       *)
(***************************************************************************)
\* cells that are trimmed only: tabs, line breaks and runs of spaces inside stay
MatchCellsTrimmedOnly(row) ==
    LET norm == [k \in 1..Len(row.cells) |-> TrimSpace(row.cells[k])]
    IN  SelectSeq(norm, LAMBDA c : c # EmptyString /\ c # Dash)

\* the cells findButtonForExam keeps of a row
MatchCells(row) ==
    LET norm == [k \in 1..Len(row.cells) |-> NormalizeCell(row.cells[k])]
    IN  SelectSeq(norm, LAMBDA c : c # EmptyString /\ c # Dash)

\* a row test that compares the date_time alone
RowMatchesDateOnly(row, targetExam) ==
    LET cells == MatchCells(row)
    IN  Len(cells) >= 3 /\ cells[1] = targetExam.DateTime

RowMatches(row, targetExam) ==
    LET cells == MatchCells(row)
    IN  /\ Len(cells) >= 3
        /\ cells[1] = targetExam.DateTime
        /\ cells[2] = targetExam.Location

\* row.Find("input[type=submit].select").Each: the first name that exists
\* (an empty name leaves buttonName empty)
RowButton(row) ==
    LET named == {k \in 1..Len(row.buttons) : row.buttons[k] # NoName}
    IN  IF named = {} THEN NoName
        ELSE row.buttons[CHOOSE k \in named : \A j \in named : k <= j]

\* a matcher that takes the first button of the page, whatever the target
firstSelectButton(listDoc, targetExam) ==
    LET rows == AllRows(listDoc)
        withButton == {k \in 1..Len(rows) : RowButton(rows[k]) # NoName}
    IN  IF withButton = {} THEN NoName
        ELSE RowButton(rows[CHOOSE k \in withButton : \A j \in withButton : k <= j])

findButtonForExam(listDoc, targetExam) ==
    LET rows == AllRows(listDoc)
        RECURSIVE scan(_, _)
        scan(k, buttonName) ==
            IF k > Len(rows) THEN buttonName
            ELSE IF buttonName # NoName THEN scan(k + 1, buttonName)
            ELSE IF RowMatches(rows[k], targetExam)
                 THEN scan(k + 1, RowButton(rows[k]))
                 ELSE scan(k + 1, buttonName)
    IN  scan(1, NoName)

(***************************************************************************)
(* fetchDetailPage: the form data posted                                   *)
(***************************************************************************)
\* form fields that take every named checkbox, checked or not
FormFieldsAllCheckboxes(listDoc) ==
    LET sent(k) == LET s == listDoc.inputs[k]
                   IN  /\ s.hasName /\ s.name # NoName
                       /\ s.type # "submit" /\ s.type # "image"
        names == {listDoc.inputs[k].name : k \in {j \in 1..Len(listDoc.inputs) : sent(j)}}
        last(n) == CHOOSE k \in 1..Len(listDoc.inputs) :
                      /\ sent(k) /\ listDoc.inputs[k].name = n
                      /\ \A j \in 1..Len(listDoc.inputs) :
                            (sent(j) /\ listDoc.inputs[j].name = n) => j <= k
    IN  [n \in names |-> listDoc.inputs[last(n)].value]

\* formData after the inputs 1..k of the document: name -> value
FormFields(listDoc) ==
    LET sent(k) == LET s == listDoc.inputs[k]
                   IN  /\ s.hasName /\ s.name # NoName
                       /\ s.type # "submit" /\ s.type # "image"
                       /\ (s.type = "checkbox" => s.checked)
        names == {listDoc.inputs[k].name : k \in {j \in 1..Len(listDoc.inputs) : sent(j)}}
        last(n) == CHOOSE k \in 1..Len(listDoc.inputs) :
                      /\ sent(k) /\ listDoc.inputs[k].name = n
                      /\ \A j \in 1..Len(listDoc.inputs) :
                            (sent(j) /\ listDoc.inputs[j].name = n) => j <= k
    IN  [n \in names |-> listDoc.inputs[last(n)].value]

EmptyValue == [v |-> "", flow |-> 0]

\* form data that take every named input, the buttons with their values, and add
\* the matched button
FormDataWithButtons(listDoc, buttonName) ==
    LET named == {k \in 1..Len(listDoc.inputs) :
                     listDoc.inputs[k].hasName /\ listDoc.inputs[k].name # NoName}
        names == {listDoc.inputs[k].name : k \in named} \cup {buttonName}
    IN  [n \in names |->
            IF n = buttonName THEN EmptyValue
            ELSE listDoc.inputs[CHOOSE k \in named : listDoc.inputs[k].name = n].value]

\* formData.Set(buttonName, "")
FormData(listDoc, buttonName) ==
    LET fields == FormFields(listDoc)
    IN  [n \in DOMAIN fields \cup {buttonName} |->
            IF n = buttonName THEN EmptyValue ELSE fields[n]]

(***************************************************************************)
(* parseDetailPage and setExamField.  A detail document is the sequence of *)
(* the texts of its elements, in the order doc.Find("*") visits them.      *)
(***************************************************************************)
labels == << <<"Prüfungslokal">>, <<"Raum">>, <<"PLZ">>, <<"Ort">>, <<"Straße">>,
             <<"Hausnummer">>, <<"Prüfungstermin">>, <<"Prüfungsbeginn">>,
             <<"Kopfhörer">>, <<"Behindertengerecht">>,
             <<"Min.", " ", "Teilnehmer">>, <<"Max.", " ", "Teilnehmer">>,
             <<"Aktuelle", " ", "Teilnehmer">>, <<"Status">> >>

IsLabel(text) == \E k \in 1..Len(labels) : labels[k] = text

\* len(w) in bytes: the code compares the length of a text with 100 and 200 only;
\* the two long words stand for a text of that many bytes, every other word of
\* the model is shorter than 20 bytes
WordLen(w) ==
    CASE w = "LONG120" -> 120
      [] w = "LONG250" -> 250
      [] w \in WS -> 1
      [] OTHER -> 10

RECURSIVE ByteLen(_)
ByteLen(text) ==
    IF text = << >> THEN 0 ELSE WordLen(Head(text)) + ByteLen(Tail(text))

\* strings.Contains(w, sub) for one word of a detail document and a one-word label
WordHasSub(w, sub) ==
    \/ w = sub
    \/ w = "Raumplan" /\ sub = "Raum"
    \/ w = "Ortsteil" /\ sub = "Ort"
    \/ w = "Statusbericht" /\ sub = "Status"

\* strings.Contains(text, sub): a label of several words lies on whole words of
\* the text (no word of the model ends or starts with a part of such a label)
TextContains(text, sub) ==
    \E p \in 0..(Len(text) - Len(sub)) :
        \A q \in 1..Len(sub) :
            IF Len(sub) = 1 THEN WordHasSub(text[p + q], sub[q])
            ELSE text[p + q] = sub[q]

\* a setter that writes the value of the Status label to the summary status
setSummaryStatus(exam, label, value) ==
    IF label = <<"Status">> THEN [exam EXCEPT !.Status = value] ELSE exam

setExamField(exam, label, value) ==
    CASE label = <<"Prüfungslokal">> -> [exam EXCEPT !.ExamVenue = value]
      [] label = <<"Raum">> -> [exam EXCEPT !.Room = value]
      [] label = <<"PLZ">> -> [exam EXCEPT !.PostalCode = value]
      [] label = <<"Straße">> -> [exam EXCEPT !.Street = value]
      [] label = <<"Hausnummer">> -> [exam EXCEPT !.HouseNumber = value]
      [] label = <<"Prüfungstermin">> -> [exam EXCEPT !.ExamDate = value]
      [] label = <<"Prüfungsbeginn">> -> [exam EXCEPT !.ExamStartTime = value]
      [] label = <<"Kopfhörer">> -> [exam EXCEPT !.Headphones = value]
      [] label = <<"Behindertengerecht">> -> [exam EXCEPT !.WheelchairAccessible = value]
      [] label = <<"Min.", " ", "Teilnehmer">> -> [exam EXCEPT !.MinParticipants = value]
      [] label = <<"Max.", " ", "Teilnehmer">> -> [exam EXCEPT !.MaxParticipants = value]
      [] label = <<"Aktuelle", " ", "Teilnehmer">> -> [exam EXCEPT !.CurrentParticipants = value]
      [] label = <<"Status">> -> [exam EXCEPT !.DetailStatus = value]
      [] OTHER -> exam

\* a visit that leaves the cursor on the label after it has taken a value
VisitNodeKeepsCursor(st, node) ==
    LET text == TrimSpace(node)
    IN  IF text = EmptyString \/ ByteLen(text) > MaxNodeText THEN st
        ELSE IF IsLabel(text) THEN [st EXCEPT !.currentLabel = text]
        ELSE IF /\ st.currentLabel # EmptyString
                /\ text # st.currentLabel
                /\ ByteLen(text) < MaxValueText
                /\ ~TextContains(text, st.currentLabel)
                /\ st.currentLabel \notin st.detailsSet
             THEN [exam |-> setExamField(st.exam, st.currentLabel, text),
                   detailsSet |-> st.detailsSet \cup {st.currentLabel},
                   currentLabel |-> st.currentLabel]
        ELSE st

\* a visit that does not look at detailsSet: the last value of a label stays
VisitNodeLastWins(st, node) ==
    LET text == TrimSpace(node)
    IN  IF text = EmptyString \/ ByteLen(text) > MaxNodeText THEN st
        ELSE IF IsLabel(text) THEN [st EXCEPT !.currentLabel = text]
        ELSE IF /\ st.currentLabel # EmptyString
                /\ text # st.currentLabel
                /\ ByteLen(text) < MaxValueText
                /\ ~TextContains(text, st.currentLabel)
             THEN [exam |-> setExamField(st.exam, st.currentLabel, text),
                   detailsSet |-> st.detailsSet \cup {st.currentLabel},
                   currentLabel |-> EmptyString]
        ELSE st

\* a visit that keeps an active label when another label is visited
VisitNodeFirstLabelStays(st, node) ==
    LET text == TrimSpace(node)
    IN  IF text = EmptyString \/ ByteLen(text) > MaxNodeText THEN st
        ELSE IF IsLabel(text)
             THEN IF st.currentLabel = EmptyString
                  THEN [st EXCEPT !.currentLabel = text] ELSE st
        ELSE IF /\ st.currentLabel # EmptyString
                /\ text # st.currentLabel
                /\ ByteLen(text) < MaxValueText
                /\ ~TextContains(text, st.currentLabel)
             THEN IF st.currentLabel \notin st.detailsSet
                  THEN [exam |-> setExamField(st.exam, st.currentLabel, text),
                        detailsSet |-> st.detailsSet \cup {st.currentLabel},
                        currentLabel |-> EmptyString]
                  ELSE [st EXCEPT !.currentLabel = EmptyString]
        ELSE st

\* a visit that takes any text after a label as its value
VisitNodeAnyValue(st, node) ==
    LET text == TrimSpace(node)
    IN  IF text = EmptyString \/ ByteLen(text) > MaxNodeText THEN st
        ELSE IF IsLabel(text) THEN [st EXCEPT !.currentLabel = text]
        ELSE IF st.currentLabel # EmptyString
             THEN IF st.currentLabel \notin st.detailsSet
                  THEN [exam |-> setExamField(st.exam, st.currentLabel, text),
                        detailsSet |-> st.detailsSet \cup {st.currentLabel},
                        currentLabel |-> EmptyString]
                  ELSE [st EXCEPT !.currentLabel = EmptyString]
        ELSE st

\* one visit of the callback of doc.Find("*").Each; st = [exam, detailsSet, currentLabel]
VisitNode(st, node) ==
    LET text == TrimSpace(node)
    IN  IF text = EmptyString \/ ByteLen(text) > MaxNodeText THEN st
        ELSE IF IsLabel(text) THEN [st EXCEPT !.currentLabel = text]
        ELSE IF /\ st.currentLabel # EmptyString
                /\ text # st.currentLabel
                /\ ByteLen(text) < MaxValueText
                /\ ~TextContains(text, st.currentLabel)
             THEN IF st.currentLabel \notin st.detailsSet
                  THEN [exam |-> setExamField(st.exam, st.currentLabel, text),
                        detailsSet |-> st.detailsSet \cup {st.currentLabel},
                        currentLabel |-> EmptyString]
                  ELSE [st EXCEPT !.currentLabel = EmptyString]
        ELSE st

parseDetailPage(doc, exam) ==
    LET RECURSIVE visit(_, _)
        visit(k, st) == IF k > Len(doc.nodes) THEN st
                        ELSE visit(k + 1, VisitNode(st, doc.nodes[k]))
    IN  visit(1, [exam |-> exam, detailsSet |-> {}, currentLabel |-> EmptyString]).exam

\* exam, detailsSet and currentLabel of parseDetailPage before the first visit
\* and after each of the first k visits
RECURSIVE ParseStates(_, _, _)
ParseStates(dd, exam, k) ==
    IF k = 0 THEN << [exam |-> exam, detailsSet |-> {}, currentLabel |-> EmptyString] >>
    ELSE LET prev == ParseStates(dd, exam, k - 1)
         IN  Append(prev, VisitNode(prev[k], dd.nodes[k]))

(***************************************************************************)
(* parseDateTime and sortExamData                                          *)
(***************************************************************************)
\* time.Parse("02.01.2006, 15:04", s) as minutes after the zero time.Time, which
\* is 0 and is 01.01.0001, 00:00 UTC; a date that is no calendar date
\* ("31.02.2025,") is an error
DayOf(w) ==
    CASE w = "01.01.0001," -> 0 [] w = "25.10.2025," -> 1000 [] w = "08.11.2025," -> 1014
MinuteOf(w) == CASE w = "00:00" -> 0 [] w = "08:00" -> 480 [] w = "10:00" -> 600
ValidDateWords == {"01.01.0001,", "25.10.2025,", "08.11.2025,"}

\* time.Parse returns no error
Parses(dateTimeStr) ==
    /\ Len(dateTimeStr) = 3
    /\ dateTimeStr[1] \in ValidDateWords
    /\ dateTimeStr[2] = " "
    /\ dateTimeStr[3] \in TimeWords

parseDateTime(dateTimeStr) ==
    IF Parses(dateTimeStr)
    THEN DayOf(dateTimeStr[1]) * 1440 + MinuteOf(dateTimeStr[3])
    ELSE 0

\* the words the sort compares, in byte order
WordOrder == <<" ", "Angelverein", "Augsburg", "Bamberg", "Belegt", "Bezirk",
               "Fischereiverband", "Frei", "Landesanstalt", "Regensburg",
               "Sportfischer">>
WordRank(w) == CHOOSE k \in 1..Len(WordOrder) : WordOrder[k] = w

\* a < b for Go strings: byte-wise, which on texts whose words hold no byte below
\* ' ' is word by word
RECURSIVE StringLess(_, _)
StringLess(a, b) ==
    IF b = << >> THEN FALSE
    ELSE IF a = << >> THEN TRUE
    ELSE IF Head(a) = Head(b) THEN StringLess(Tail(a), Tail(b))
    ELSE WordRank(Head(a)) < WordRank(Head(b))

\* a comparison of the parsed dates alone
lessByDate(x, y) == parseDateTime(x.DateTime) < parseDateTime(y.DateTime)

\* the less function handed to sort.Slice
less(x, y) ==
    LET dateI == parseDateTime(x.DateTime)
        dateJ == parseDateTime(y.DateTime)
    IN  IF dateI # dateJ THEN dateI < dateJ
        ELSE IF x.Location # y.Location THEN StringLess(x.Location, y.Location)
        ELSE StringLess(x.Status, y.Status)

Swap(data, i, j) == [data EXCEPT ![i] = data[j], ![j] = data[i]]

\* sort.Slice(x, less) is pdqsort_func(data, 0, n, limit) of the sort package.
\* Indices here are 1-based and a range lo..hi is inclusive.  The model sorts
\* slices of at most maxInsertion + 1 elements, for which pdqsort_func does what
\* is written here: the heap sort (limit = 0), breakPatterns (after an unbalanced
\* partition of a range that is still longer than maxInsertion), partitionEqual
\* (a > 0) and the ninther (50 and more elements) need longer slices.
maxInsertion == 12

\* insertionSort_func:
\* for i := a + 1; i < b; i++ { for j := i; j > a && less(j, j-1); j-- { swap } }
RECURSIVE SinkDown(_, _, _)
SinkDown(data, lo, j) ==
    IF j > lo /\ less(data[j], data[j - 1])
    THEN SinkDown(Swap(data, j, j - 1), lo, j - 1)
    ELSE data

RECURSIVE InsertFrom(_, _, _, _)
InsertFrom(data, lo, i, hi) ==
    IF i > hi THEN data ELSE InsertFrom(SinkDown(data, lo, i), lo, i + 1, hi)

insertionSort(data, lo, hi) == InsertFrom(data, lo, lo + 1, hi)

\* order2_func: the two indices in order, and whether they were swapped
order2(data, a, b) ==
    IF less(data[b], data[a]) THEN [x |-> b, y |-> a, swaps |-> 1]
    ELSE [x |-> a, y |-> b, swaps |-> 0]

\* median_func: the index of the median of data[a], data[b], data[c]
median(data, a, b, c) ==
    LET ab == order2(data, a, b)
        bc == order2(data, ab.y, c)
        ac == order2(data, ab.x, bc.x)
    IN  [idx |-> ac.y, swaps |-> ab.swaps + bc.swaps + ac.swaps]

\* choosePivot_func for 8 to 49 elements: the median of the elements at the
\* quarters; the hint is increasingHint when no swap was counted
choosePivot(data, lo, hi) ==
    LET l == hi - lo + 1
        m == median(data, lo + (l \div 4), lo + (l \div 4) * 2, lo + (l \div 4) * 3)
    IN  [pivot |-> m.idx, increasing |-> m.swaps = 0]

\* partialInsertionSort_func for fewer than 50 elements: true when no element is
\* less than its predecessor, and nothing is moved
partialInsertionSort(data, lo, hi) ==
    \A i \in (lo + 1)..hi : ~less(data[i], data[i - 1])

\* for i <= j && less(data[i], data[a]) { i++ }
RECURSIVE SkipLess(_, _, _, _)
SkipLess(data, lo, i, j) ==
    IF i <= j /\ less(data[i], data[lo]) THEN SkipLess(data, lo, i + 1, j) ELSE i

\* for i <= j && !less(data[j], data[a]) { j-- }
RECURSIVE SkipNotLess(_, _, _, _)
SkipNotLess(data, lo, i, j) ==
    IF i <= j /\ ~less(data[j], data[lo]) THEN SkipNotLess(data, lo, i, j - 1) ELSE j

\* the loop of partition_func, the pivot being at lo
RECURSIVE PartitionLoop(_, _, _, _)
PartitionLoop(data, lo, i, j) ==
    LET i2 == SkipLess(data, lo, i, j)
        j2 == SkipNotLess(data, lo, i2, j)
    IN  IF i2 > j2 THEN [data |-> Swap(data, j2, lo), mid |-> j2]
        ELSE PartitionLoop(Swap(data, i2, j2), lo, i2 + 1, j2 - 1)

\* partition_func: data.Swap(a, pivot), the loop, data.Swap(j, a)
partition(data, lo, hi, pivot) ==
    PartitionLoop(Swap(data, lo, pivot), lo, lo + 1, hi)

RECURSIVE pdqsort(_, _, _)
pdqsort(data, lo, hi) ==
    IF hi - lo + 1 <= maxInsertion THEN insertionSort(data, lo, hi)
    ELSE LET cp == choosePivot(data, lo, hi)
         IN  IF cp.increasing /\ partialInsertionSort(data, lo, hi) THEN data
             ELSE LET pt == partition(data, lo, hi, cp.pivot)
                  IN  pdqsort(pdqsort(pt.data, lo, pt.mid - 1), pt.mid + 1, hi)

sortExamData(examData) == pdqsort(examData, 1, Len(examData))

(***************************************************************************)
(* OutputData and json.MarshalIndent                                       *)
(***************************************************************************)
\* the keys of one record in the JSON text: the detail fields are omitempty
MarshalExam(e) ==
    [f \in SummaryFields \cup {d \in DetailFields : e[d] # EmptyString} |-> e[f]]

OutputData(examData) ==
    [ExamAppointments |-> [k \in 1..Len(examData) |-> MarshalExam(examData[k])],
     TotalCount |-> Len(examData)]

(***************************************************************************)
(* The remote flow: the documents it serves.                               *)
(***************************************************************************)
LocationNames == << <<"Fischereiverband">>, <<"Angelverein">>,
                    <<"Sportfischer">>, <<"Landesanstalt">> >>
LocationSuffix == << << >>, <<" ", "Augsburg">>, <<" ", "Bamberg">>,
                     <<" ", "Regensburg">> >>
CityNames == <<"Augsburg", "Bamberg", "Regensburg">>
RegionNames == <<"Schwaben", "Oberbayern", "Oberpfalz">>

\* the appointment number q of the flow: two appointments of one place are on
\* two dates, the next place has appointments at the same two dates and time
LocationOf(q) ==
    LocationNames[(((q - 1) \div 2) % 4) + 1] \o LocationSuffix[(((q - 1) \div 8) % 4) + 1]
DateWordOf(q) == IF (q % 2) = 1 THEN "08.11.2025," ELSE "25.10.2025,"
TimeWordOf(q) == IF (((q - 1) \div 4) % 2) = 0 THEN "10:00" ELSE "08:00"

\* the tr of appointment q at position p of a listing served to session flow: the
\* cells as the page holds them (line breaks, tabs, a "-" cell) and, in the last
\* cell, the select button of the row
DataRow(q, p, flow) ==
    [cells |-> << <<"\n", "\t", DateWordOf(q), " ", " ", TimeWordOf(q), "\n">>,
                  <<" ">> \o LocationOf(q) \o <<"\t">>,
                  <<CityNames[(q % 3) + 1]>>,
                  <<RegionNames[(q % 3) + 1]>>,
                  <<"-">>,
                  <<IF (q % 3) = 0 THEN "Belegt" ELSE "Frei">>,
                  <<"\n">> >>,
     buttons |-> << [id |-> "select", row |-> p, flow |-> flow] >>]

HeaderRow ==
    [cells |-> << <<"Augsburg", "\t", "Bamberg", "\t", "Freising">>,
                  <<"Oberbayern", "\t", "Schwaben">>,
                  <<"Frei", "\t", "Belegt">> >>,
     buttons |-> << >>]

\* a row of a layout table: three cells, none a date
LegendRow ==
    [cells |-> << <<"Frei">>, <<"-">>, <<"Belegt">>, <<"Bezirk">> >>,
     buttons |-> << >>]

\* a data row the page shows without its status and region
ShortRow(flow) ==
    [cells |-> << <<"25.10.2025,", " ", "08:00">>, <<"Landesanstalt">>,
                  <<"Augsburg">> >>,
     buttons |-> << [id |-> "select", row |-> 1, flow |-> flow] >>]

GoodAction(flow) == [url |-> "/fprApp/verwaltung/Pruefungssuche", flow |-> flow, ok |-> TRUE]
\* an action attribute that is no URL (a bad percent escape)
BadAction(flow) == [url |-> "/fprApp/verwaltung/Pruefungssuche%zz", flow |-> flow, ok |-> FALSE]

Input(id, row, flow, type, v, checked) ==
    [hasName |-> TRUE, name |-> [id |-> id, row |-> row, flow |-> flow],
     type |-> type, value |-> [v |-> v, flow |-> flow], checked |-> checked]

\* the listing of the appointments qs (a sequence) served to session flow
ListingDoc(flow, qs, forms) ==
    [flow |-> flow,
     qs |-> qs,
     forms |-> forms,
     tables |-> << [textLen |-> 20, inside |-> 0, rows |-> <<LegendRow>>],
                   [textLen |-> 400, inside |-> 0,
                    rows |-> <<HeaderRow>> \o
                             [p \in 1..Len(qs) |-> DataRow(qs[p], p, flow)]] >>,
     inputs |-> << Input("javax.faces.ViewState", 0, flow, "hidden", "state", FALSE),
                   Input("_csrf", 0, flow, "hidden", "token", FALSE),
                   Input("ort", 0, flow, "text", "Hof", FALSE),
                   Input("nurFreie", 0, flow, "checkbox", "on", FALSE),
                   Input("mitDetails", 0, flow, "checkbox", "on", TRUE),
                   Input("suchen", 0, flow, "submit", "Suchen", FALSE),
                   Input("hilfe", 0, flow, "image", "Hilfe", FALSE),
                   [Input("", 0, flow, "text", "ohne", FALSE) EXCEPT
                       !.hasName = FALSE, !.name = NoName],
                   [Input("", 0, flow, "hidden", "leer", FALSE) EXCEPT !.name = NoName] >>
                \o [p \in 1..Len(qs) |-> Input("select", p, flow, "submit", "", FALSE)]]

FormWith(action) == << [hasAction |-> TRUE, action |-> action] >>
FormWithoutAction == << [hasAction |-> FALSE, action |-> NoAction] >>

UpTo(n) == [q \in 1..n |-> q]
\* the appointments qs without the one at position k
Without(qs, k) == [p \in 1..(Len(qs) - 1) |-> IF p < k THEN qs[p] ELSE qs[p + 1]]

\* the position of the appointment that has gone from a later listing of session
\* flow: the task's own appointment (odd sessions) or the first of the listing,
\* which moves every other row up by one (even sessions)
Dropped(flow) == IF (flow % 2) = 1 THEN flow ELSE 1

\* two appointments at one place and time with one status, in two cities
TiedAppointments == <<34, 2>>

\* what the listing URL may answer the first request of the run
InitialListings ==
    {ListingDoc(0, UpTo(n), FormWith(GoodAction(0))) : n \in 0..MaxExams}
    \cup {ListingDoc(0, TiedAppointments, FormWith(GoodAction(0)))}
    \cup {ListingDoc(0, UpTo(1), FormWithoutAction)}
    \cup {[ListingDoc(0, UpTo(1), FormWith(GoodAction(0))) EXCEPT
              !.tables[2].rows = @ \o <<ShortRow(0)>>]}

\* the listing d with the row at position p shown without its select button (the
\* appointment can no longer be chosen)
WithoutButton(d, p) ==
    [d EXCEPT !.tables[2].rows[p + 1].buttons = << >>,
              !.inputs = SelectSeq(@, LAMBDA s : s.name # [id |-> "select", row |-> p,
                                                           flow |-> d.flow])]

\* the listing d with a second form behind the search form, which has a hidden
\* field of its own under the name of the view state
TwoForms(d) ==
    [d EXCEPT !.inputs = Append(@, Input("javax.faces.ViewState", 0, d.flow, "hidden",
                                         "other", FALSE))]

\* the page d as the flow serves it to the session flow: the same tables, the
\* form action, the select buttons and the inputs being those of that session
Reflow(d, flow) ==
    [flow |-> flow,
     qs |-> d.qs,
     forms |-> [k \in 1..Len(d.forms) |->
                   IF d.forms[k].hasAction
                   THEN [d.forms[k] EXCEPT !.action.flow = flow] ELSE d.forms[k]],
     tables |-> [t \in 1..Len(d.tables) |->
                   [d.tables[t] EXCEPT !.rows =
                       [r \in 1..Len(d.tables[t].rows) |->
                           [d.tables[t].rows[r] EXCEPT !.buttons =
                               [b \in 1..Len(d.tables[t].rows[r].buttons) |->
                                   IF d.tables[t].rows[r].buttons[b] = NoName THEN NoName
                                   ELSE [d.tables[t].rows[r].buttons[b] EXCEPT
                                            !.flow = flow]]]]]],
     inputs |-> [k \in 1..Len(d.inputs) |->
                    [d.inputs[k] EXCEPT
                        !.name = IF @ = NoName THEN NoName ELSE [@ EXCEPT !.flow = flow],
                        !.value.flow = flow]]]

\* the detail document of the row a posted button selects in the session's listing
DetailPage(listDoc, buttonName) ==
    LET row == listDoc.tables[2].rows[buttonName.row + 1]
        venue == NormalizeCell(row.cells[2])
    IN  IF buttonName.row \notin 1..(Len(listDoc.tables[2].rows) - 1)
        THEN [nodes |-> << <<"Fehler">> >>]
        ELSE
        [nodes |-> << <<"Prüfungslokal", " ">> \o venue \o <<" ", "Raum", " ", "101">>,
                      <<"Prüfungslokal">>,
                      <<"\n", " ">> \o venue \o <<"\n">>,
                      <<"Raum">>,
                      <<"Raumplan">>,
                      <<"101">>,
                      <<"LONG250">>,
                      <<"Ort">>,
                      NormalizeCell(row.cells[3]),
                      <<"Raum">>,
                      <<"102">>,
                      <<"Status">>,
                      <<"Anmeldung", " ">> \o NormalizeCell(row.cells[6]) >>]

\* a page without any label (the flow's error page)
ErrorPage == [nodes |-> << <<"Fehler">>, <<"Sitzung", " ", "abgelaufen">> >>]

DetailPages(listDoc, buttonName) == {DetailPage(listDoc, buttonName), ErrorPage}

NoDoc == [flow |-> 0, qs |-> << >>, forms |-> << >>, tables |-> << >>, inputs |-> << >>]
NoDetail == [nodes |-> << >>]

(***************************************************************************)
(* The state of a run of main.                                             *)
(***************************************************************************)
VARIABLES
    pcMain,        \* where main is: "base", "list" (a GET is out), "spawn" (the
                   \* for loop), "wait" (wg.Wait), "done" (the JSON is printed),
                   \* "fatal" (log.Fatal), "panic" (a goroutine panicked)
    mainRequests,  \* the requests main has sent
    doc,           \* the initial listing
    formAction,    \* the form action of the initial listing
    examsToFetch,  \* the summary records
    examData,      \* the output slice
    spawned,       \* goroutines started by the for loop
    wg,            \* counter of the WaitGroup
    semaphore,     \* elements in the channel of capacity maxWorkers
    jars,          \* cookie jars created: 0 is main's, i is examJar of task i
    pc,            \* per task: "idle", "acquire", "base", "list", "submit",
                   \* "done", "panic"
    listDoc,       \* per task: the listing of its session, while the task runs
    detailDoc,     \* per task: the detail document it parsed
    requests,      \* per task: the requests it has sent
    steps,         \* per task: the steps it has begun, in order
    outcome,       \* per task: "", "Success" or "Degraded"
    cause,         \* per task: the failure it logged
    writes,        \* per slot of examData: the tasks that assigned it, in order
    jsonOutput     \* what main printed

mainVars == <<pcMain, mainRequests, doc, formAction, examsToFetch, spawned, jsonOutput>>
poolVars == <<wg, semaphore>>
slotVars == <<examData, writes>>
taskVars == <<jars, pc, listDoc, detailDoc, requests, steps, outcome, cause>>
vars == <<mainVars, poolVars, slotVars, taskVars>>

Tasks == 1..Len(examsToFetch)

\* what the listing URL may answer a task's session, the appointments qs having
\* been listed at first: the same appointments, the listing with one appointment
\* gone, a page without the form action, a page whose form action is no URL; of
\* two appointments at one place and time, the first without its select button;
\* the page of a single appointment with a second form; and, when the initial
\* listing is not one of the flow's numbered listings, that same page
SessionListings(flow, qs) ==
    { ListingDoc(flow, qs, FormWith(GoodAction(flow))),
      ListingDoc(flow, Without(qs, Dropped(flow)), FormWith(GoodAction(flow))),
      ListingDoc(flow, qs, FormWithoutAction),
      ListingDoc(flow, qs, FormWith(BadAction(flow))) }
    \cup (IF qs = TiedAppointments
          THEN {WithoutButton(ListingDoc(flow, qs, FormWith(GoodAction(flow))), 1)}
          ELSE {})
    \cup (IF Len(qs) = 1
          THEN {TwoForms(ListingDoc(flow, qs, FormWith(GoodAction(flow))))}
          ELSE {})
    \cup (IF qs = << >> THEN {Reflow(doc, flow)} ELSE {})

Request(method, target, jar, action, form) ==
    [method |-> method, target |-> target, jar |-> jar, action |-> action, form |-> form]

\* nothing is printed yet: no JSON text (a printed total_count is never negative)
NoOutput == [ExamAppointments |-> << >>, TotalCount |-> -1]

\* main has created its jar and client and sent the GET of the base page
Init ==
    /\ pcMain = "base"
    /\ mainRequests = << Request("GET", "base", 0, NoAction, << >>) >>
    /\ doc = NoDoc
    /\ formAction = NoAction
    /\ examsToFetch = << >>
    /\ examData = << >>
    /\ spawned = 0
    /\ wg = 0
    /\ semaphore = 0
    /\ jars = {0}
    /\ pc = << >>
    /\ listDoc = << >>
    /\ detailDoc = << >>
    /\ requests = << >>
    /\ steps = << >>
    /\ outcome = << >>
    /\ cause = << >>
    /\ writes = << >>
    /\ jsonOutput = NoOutput

(***************************************************************************)
(* main up to the for loop                                                 *)
(***************************************************************************)
\* client.Do(req) of the base page returns, with a response or an error that is
\* only logged; the GET of the list page is sent with the same client
MainBaseReturns ==
    /\ pcMain = "base"
    /\ pcMain' = "list"
    /\ mainRequests' = Append(mainRequests, Request("GET", "list", 0, NoAction, << >>))
    /\ UNCHANGED <<doc, formAction, examsToFetch, spawned, jsonOutput,
                   poolVars, slotVars, taskVars>>

\* log.Fatal: the GET failed, the status is not 200, the body cannot be read
MainListFails ==
    /\ pcMain = "list"
    /\ pcMain' = "fatal"
    /\ UNCHANGED <<mainRequests, doc, formAction, examsToFetch, spawned, jsonOutput,
                   poolVars, slotVars, taskVars>>

\* a check of the form action that always passes
FormActionFoundAlways(action) == TRUE

\* if formAction == "" { log.Fatal(...) }
FormActionFound(action) == action.url # ""

\* log.Fatal("No form action found"), the list GET answered with one of listings
MainNoFormActionOf(listings) ==
    /\ pcMain = "list"
    /\ \E d \in listings :
          /\ ~FormActionFound(FormActionOf(d))
          /\ doc' = d
    /\ pcMain' = "fatal"
    /\ UNCHANGED <<mainRequests, formAction, examsToFetch, spawned, jsonOutput,
                   poolVars, slotVars, taskVars>>

\* the extraction reads cells[3] of a row of three cells
MainExtractPanicsOf(listings) ==
    /\ pcMain = "list"
    /\ \E d \in listings :
          /\ FormActionFound(FormActionOf(d))
          /\ ExtractPanics(d)
          /\ doc' = d
          /\ formAction' = FormActionOf(d)
    /\ pcMain' = "panic"
    /\ UNCHANGED <<mainRequests, examsToFetch, spawned, jsonOutput,
                   poolVars, slotVars, taskVars>>

\* examData := make([]ExamAppointment, len(examsToFetch))
MakeExamData(n) == [k \in 1..n |-> ExamAppointment]

\* the listing is read: formAction, examsToFetch, examData, semaphore, wg, mu
MainExtractOf(listings) ==
    /\ pcMain = "list"
    /\ \E d \in listings :
          /\ FormActionFound(FormActionOf(d))
          /\ ~ExtractPanics(d)
          /\ doc' = d
          /\ formAction' = FormActionOf(d)
          /\ examsToFetch' = examsOf(d)
          /\ LET n == Len(examsOf(d))
             IN  /\ examData' = MakeExamData(n)
                 /\ writes' = [k \in 1..n |-> << >>]
                 /\ pc' = [k \in 1..n |-> "idle"]
                 /\ listDoc' = [k \in 1..n |-> NoDoc]
                 /\ detailDoc' = [k \in 1..n |-> NoDetail]
                 /\ requests' = [k \in 1..n |-> << >>]
                 /\ steps' = [k \in 1..n |-> << >>]
                 /\ outcome' = [k \in 1..n |-> ""]
                 /\ cause' = [k \in 1..n |-> ""]
                 /\ pcMain' = IF n = 0 THEN "wait" ELSE "spawn"
    /\ UNCHANGED <<mainRequests, spawned, jsonOutput, poolVars, jars>>

\* the three ways on from the answer to the list GET, the answer being one of
\* InitialListings
MainNoFormAction == MainNoFormActionOf(InitialListings)
MainExtractPanics == MainExtractPanicsOf(InitialListings)
MainExtract == MainExtractOf(InitialListings)

\* one turn of the for loop: wg.Add(1); go func(index)
MainSpawn ==
    /\ pcMain = "spawn"
    /\ spawned < Len(examsToFetch)
    /\ spawned' = spawned + 1
    /\ wg' = wg + 1
    /\ pc' = [pc EXCEPT ![spawned + 1] = "acquire"]
    /\ pcMain' = IF spawned + 1 = Len(examsToFetch) THEN "wait" ELSE "spawn"
    /\ UNCHANGED <<mainRequests, doc, formAction, examsToFetch, jsonOutput,
                   semaphore, slotVars, jars, listDoc, detailDoc, requests, steps,
                   outcome, cause>>

(***************************************************************************)
(* The goroutine of one exam: go func(index int)                           *)
(***************************************************************************)
\* the process runs and has started goroutines
Alive == pcMain \in {"spawn", "wait"}

\* a channel that never fills
CanAcquireAlways == TRUE

\* semaphore <- struct{}{} goes through when the channel is not full
CanAcquire == semaphore < maxWorkers

\* the requests of the task sent with main's client
SharedClientJar(index) == 0

\* the jar of examClient, the client every request of task index is sent with
ClientJar(index) == index

\* every task assigning one element
SlotOfShared(index) == 1

\* the element after the task's own
SlotOfNext(index) == (index % Len(examData)) + 1

\* examData filled in the order in which the tasks end
SlotOfArrival(index) == Cardinality({k \in Tasks : pc[k] = "done"}) + 1

\* the element of examData that task index assigns
SlotOf(index) == index

\* the store left out: the slot keeps its zero value
BasicInfoLost(exam) == ExamAppointment

\* examData[index] = exam // Store basic info only
BasicInfo(exam) == exam

\* the form action main read from the initial listing
mainFormAction(listDocument) == formAction

\* sessionFormAction, read from the list page of the task's own session
sessionFormAction(listDocument) == FormActionOf(listDocument)

\* the check of the button left out
ButtonFoundAlways(buttonName) == TRUE

\* if buttonName == "" { ... return }
ButtonFound(buttonName) == buttonName # NoName

\* mu.Lock(); examData[index] = rec; mu.Unlock()
Store(index, rec) ==
    /\ examData' = [examData EXCEPT ![SlotOf(index)] = rec]
    /\ writes' = [writes EXCEPT ![SlotOf(index)] = Append(@, index)]

\* the function returns and its deferred calls run: <-semaphore, then wg.Done()
Return(index) ==
    /\ semaphore' = semaphore - 1
    /\ wg' = wg - 1
    /\ listDoc' = [listDoc EXCEPT ![index] = NoDoc]
    /\ pc' = [pc EXCEPT ![index] = "done"]

\* a failed step that stores the basic record and then starts over at the base page
DegradeAndRetry(index, why) ==
    /\ Store(index, BasicInfo(examsToFetch[index]))
    /\ outcome' = [outcome EXCEPT ![index] = "Degraded"]
    /\ cause' = [cause EXCEPT ![index] = why]
    /\ pc' = [pc EXCEPT ![index] = "base"]
    /\ UNCHANGED <<semaphore, wg, listDoc>>

\* a failed step: the cause is logged, the basic record stored, the function returns
Degrade(index, why) ==
    /\ Store(index, BasicInfo(examsToFetch[index]))
    /\ outcome' = [outcome EXCEPT ![index] = "Degraded"]
    /\ cause' = [cause EXCEPT ![index] = why]
    /\ Return(index)

\* the semaphore is acquired; examJar and examClient are created and the GET of the
\* base page is sent
TaskAcquire(index) ==
    /\ Alive /\ pc[index] = "acquire"
    /\ CanAcquire
    /\ semaphore' = semaphore + 1
    /\ jars' = jars \cup {index}
    /\ requests' = [requests EXCEPT ![index] =
                       Append(@, Request("GET", "base", ClientJar(index), NoAction, << >>))]
    /\ steps' = [steps EXCEPT ![index] = Append(@, "OpenConversation")]
    /\ pc' = [pc EXCEPT ![index] = "base"]
    /\ UNCHANGED <<mainVars, wg, slotVars, listDoc, detailDoc, outcome, cause>>

\* a task that gives up when the GET of the base page returns an error: the basic
\* record is stored and the function returns
TaskBaseReturnsOrFails(index) ==
    /\ Alive /\ pc[index] = "base"
    /\ \/ /\ requests' = [requests EXCEPT ![index] =
                             Append(@, Request("GET", "list", ClientJar(index), NoAction, << >>))]
          /\ steps' = [steps EXCEPT ![index] = Append(@, "FetchListing")]
          /\ pc' = [pc EXCEPT ![index] = "list"]
          /\ UNCHANGED <<mainVars, poolVars, slotVars, jars, listDoc, detailDoc,
                         outcome, cause>>
       \/ /\ Degrade(index, "BaseError")
          /\ UNCHANGED <<mainVars, jars, detailDoc, requests, steps>>

\* examClient.Do(req) of the base page returns (its result is dropped); the GET of
\* the list page is sent
TaskBaseReturns(index) ==
    /\ Alive /\ pc[index] = "base"
    /\ requests' = [requests EXCEPT ![index] =
                       Append(@, Request("GET", "list", ClientJar(index), NoAction, << >>))]
    /\ steps' = [steps EXCEPT ![index] = Append(@, "FetchListing")]
    /\ pc' = [pc EXCEPT ![index] = "list"]
    /\ UNCHANGED <<mainVars, poolVars, slotVars, jars, listDoc, detailDoc, outcome, cause>>

\* examClient.Do(req) of the list page returns an error
TaskListFetchError(index) ==
    /\ Alive /\ pc[index] = "list"
    /\ Degrade(index, "FetchError")
    /\ UNCHANGED <<mainVars, jars, detailDoc, requests, steps>>

\* goquery.NewDocumentFromReader returns an error
TaskListParseError(index) ==
    /\ Alive /\ pc[index] = "list"
    /\ Degrade(index, "ParseError")
    /\ UNCHANGED <<mainVars, jars, detailDoc, requests, steps>>

\* the list page of the session holds no form action
TaskNoFormAction(index) ==
    /\ Alive /\ pc[index] = "list"
    /\ \E d \in SessionListings(ClientJar(index), doc.qs) :
          sessionFormAction(d).url = ""
    /\ Degrade(index, "NoSubmissionTarget")
    /\ UNCHANGED <<mainVars, jars, detailDoc, requests, steps>>

\* findButtonForExam finds no button
TaskNoMatch(index) ==
    /\ Alive /\ pc[index] = "list"
    /\ \E d \in SessionListings(ClientJar(index), doc.qs) :
          /\ sessionFormAction(d).url # ""
          /\ ~ButtonFound(findButtonForExam(d, examsToFetch[index]))
    /\ steps' = [steps EXCEPT ![index] = Append(@, "Match")]
    /\ Degrade(index, "NoMatch")
    /\ UNCHANGED <<mainVars, jars, detailDoc, requests>>

\* fetchDetailPage: http.NewRequest returns a nil request for a submitURL that is
\* no URL, and req.Header.Set dereferences it: the goroutine panics and the
\* process exits
TaskSubmitPanics(index) ==
    /\ Alive /\ pc[index] = "list"
    /\ \E d \in SessionListings(ClientJar(index), doc.qs) :
          /\ sessionFormAction(d).url # ""
          /\ ButtonFound(findButtonForExam(d, examsToFetch[index]))
          /\ ~sessionFormAction(d).ok
          /\ listDoc' = [listDoc EXCEPT ![index] = d]
    /\ steps' = [steps EXCEPT ![index] = @ \o <<"Match", "Submit">>]
    /\ pc' = [pc EXCEPT ![index] = "panic"]
    /\ pcMain' = "panic"
    /\ UNCHANGED <<mainRequests, doc, formAction, examsToFetch, spawned, jsonOutput,
                   poolVars, slotVars, jars, detailDoc, requests, outcome, cause>>

\* fetchDetailPage: the form data is built and posted to the session's form action
TaskSubmit(index) ==
    /\ Alive /\ pc[index] = "list"
    /\ \E d \in SessionListings(ClientJar(index), doc.qs) :
          LET buttonName == findButtonForExam(d, examsToFetch[index])
          IN  /\ sessionFormAction(d).url # ""
              /\ ButtonFound(buttonName)
              /\ sessionFormAction(d).ok
              /\ listDoc' = [listDoc EXCEPT ![index] = d]
              /\ requests' = [requests EXCEPT ![index] =
                                 Append(@, Request("POST", "submit", ClientJar(index),
                                                   sessionFormAction(d),
                                                   FormData(d, buttonName)))]
    /\ steps' = [steps EXCEPT ![index] = @ \o <<"Match", "Submit">>]
    /\ pc' = [pc EXCEPT ![index] = "submit"]
    /\ UNCHANGED <<mainVars, poolVars, slotVars, jars, detailDoc, outcome, cause>>

\* client.Do(req) of the POST returns an error
TaskSubmitError(index) ==
    /\ Alive /\ pc[index] = "submit"
    /\ Degrade(index, "SubmissionError")
    /\ UNCHANGED <<mainVars, jars, detailDoc, requests, steps>>

\* goquery.NewDocumentFromReader of the POST's response returns an error
TaskDetailParseError(index) ==
    /\ Alive /\ pc[index] = "submit"
    /\ Degrade(index, "ParseError")
    /\ UNCHANGED <<mainVars, jars, detailDoc, requests, steps>>

\* the button of the POST the task sent last
PostedButton(index) ==
    LET form == requests[index][Len(requests[index])].form
    IN  CHOOSE n \in DOMAIN form : n.id \in {"select", ""}

\* the detail document arrives: parseDetailPage(detailDoc, &exam), the store and
\* the return
TaskDetailParsedOf(index, pages) ==
    /\ Alive /\ pc[index] = "submit"
    /\ \E dd \in pages :
          /\ detailDoc' = [detailDoc EXCEPT ![index] = dd]
          /\ Store(index, parseDetailPage(dd, examsToFetch[index]))
    /\ steps' = [steps EXCEPT ![index] = Append(@, "Parse")]
    /\ outcome' = [outcome EXCEPT ![index] = "Success"]
    /\ Return(index)
    /\ UNCHANGED <<mainVars, jars, requests, cause>>

TaskDetailParsed(index) ==
    TaskDetailParsedOf(index, DetailPages(listDoc[index], PostedButton(index)))

(***************************************************************************)
(* main after the for loop                                                 *)
(***************************************************************************)
\* a wait that returns one task early
AllJoinedEarly == wg <= 1

\* a wait that gives up on the tasks whose request is still out
AllJoinedOrTimedOut ==
    \A i \in Tasks : pc[i] \in {"done", "base", "list", "submit"}

\* wg.Wait() returns
AllJoined == wg = 0

\* an output of the enriched records only
OutputRecordsEnriched(data) ==
    SelectSeq(data, LAMBDA e : \E f \in DetailFields : e[f] # EmptyString)

\* the records of the output
OutputRecords(data) == data

\* wg.Wait(); sortExamData(examData); json.MarshalIndent; fmt.Print
MainFinish ==
    /\ pcMain = "wait"
    /\ AllJoined
    /\ examData' = sortExamData(examData)
    /\ jsonOutput' = OutputData(OutputRecords(sortExamData(examData)))
    /\ pcMain' = "done"
    /\ UNCHANGED <<mainRequests, doc, formAction, examsToFetch, spawned,
                   poolVars, writes, taskVars>>

Next ==
    \/ MainBaseReturns
    \/ MainListFails
    \/ MainNoFormAction
    \/ MainExtractPanics
    \/ MainExtract
    \/ MainSpawn
    \/ \E index \in Tasks : TaskAcquire(index)
    \/ \E index \in Tasks : TaskBaseReturns(index)
    \/ \E index \in Tasks : TaskListFetchError(index)
    \/ \E index \in Tasks : TaskListParseError(index)
    \/ \E index \in Tasks : TaskNoFormAction(index)
    \/ \E index \in Tasks : TaskNoMatch(index)
    \/ \E index \in Tasks : TaskSubmitPanics(index)
    \/ \E index \in Tasks : TaskSubmit(index)
    \/ \E index \in Tasks : TaskSubmitError(index)
    \/ \E index \in Tasks : TaskDetailParseError(index)
    \/ \E index \in Tasks : TaskDetailParsed(index)
    \/ MainFinish

Spec == Init /\ [][Next]_vars

(***************************************************************************)
(* The run in which every request returns.  main is a goroutine that is    *)
(* never blocked but in wg.Wait(): each of its steps is taken once it can  *)
(* be.  A task blocked in the send to the channel is woken when a slot is  *)
(* free (the runtime queues the senders), and every request it has sent    *)
(* returns, with a response or an error: its next step is taken.           *)
(***************************************************************************)
\* the answer to main's list GET arrives and main goes on
MainListReturns ==
    MainListFails \/ MainNoFormAction \/ MainExtractPanics \/ MainExtract

\* the steps of the goroutine of task index after its send to the channel
TaskStep(index) ==
    /\ index \in Tasks
    /\ \/ TaskBaseReturns(index)
       \/ TaskListFetchError(index)
       \/ TaskListParseError(index)
       \/ TaskNoFormAction(index)
       \/ TaskNoMatch(index)
       \/ TaskSubmitPanics(index)
       \/ TaskSubmit(index)
       \/ TaskSubmitError(index)
       \/ TaskDetailParseError(index)
       \/ TaskDetailParsed(index)

Fairness ==
    /\ WF_vars(MainBaseReturns)
    /\ WF_vars(MainListReturns)
    /\ WF_vars(MainSpawn)
    /\ WF_vars(MainFinish)
    /\ \A index \in 1..MaxExams :
          /\ SF_vars(index \in Tasks /\ TaskAcquire(index))
          /\ WF_vars(TaskStep(index))

SpecFair == Init /\ [][Next]_vars /\ Fairness

(***************************************************************************)
(* The saturated pool.  A run with more summary records than pool slots,   *)
(* taken up at the moment when every goroutine is started, maxWorkers - 2  *)
(* tasks hold a slot and wait for the answer to their first GET, and the   *)
(* flow leaves them waiting (no request has a timeout): the remaining      *)
(* tasks compete for the two free slots.                                   *)
(***************************************************************************)
PoolExams == maxWorkers + PoolWaiting
PoolStalled == 1..(maxWorkers - 2)
PoolRunning == (maxWorkers - 1)..PoolExams
PoolListing == ListingDoc(0, UpTo(PoolExams), FormWith(GoodAction(0)))

InitPool ==
    /\ pcMain = "wait"
    /\ mainRequests = << Request("GET", "base", 0, NoAction, << >>),
                         Request("GET", "list", 0, NoAction, << >>) >>
    /\ doc = PoolListing
    /\ formAction = FormActionOf(PoolListing)
    /\ examsToFetch = examsOf(PoolListing)
    /\ examData = MakeExamData(PoolExams)
    /\ spawned = PoolExams
    /\ wg = PoolExams
    /\ semaphore = Cardinality(PoolStalled)
    /\ jars = {0} \cup PoolStalled
    /\ pc = [k \in 1..PoolExams |-> IF k \in PoolStalled THEN "base" ELSE "acquire"]
    /\ listDoc = [k \in 1..PoolExams |-> NoDoc]
    /\ detailDoc = [k \in 1..PoolExams |-> NoDetail]
    /\ requests = [k \in 1..PoolExams |->
                      IF k \in PoolStalled
                      THEN << Request("GET", "base", ClientJar(k), NoAction, << >>) >>
                      ELSE << >>]
    /\ steps = [k \in 1..PoolExams |->
                   IF k \in PoolStalled THEN <<"OpenConversation">> ELSE << >>]
    /\ outcome = [k \in 1..PoolExams |-> ""]
    /\ cause = [k \in 1..PoolExams |-> ""]
    /\ writes = [k \in 1..PoolExams |-> << >>]
    /\ jsonOutput = NoOutput

NextPool ==
    \/ \E index \in PoolRunning : TaskAcquire(index)
    \/ \E index \in PoolRunning : TaskBaseReturns(index)
    \/ \E index \in PoolRunning : TaskListFetchError(index)
    \/ \E index \in PoolRunning : TaskListParseError(index)
    \/ \E index \in PoolRunning : TaskNoFormAction(index)
    \/ \E index \in PoolRunning : TaskNoMatch(index)
    \/ \E index \in PoolRunning : TaskSubmitPanics(index)
    \/ \E index \in PoolRunning : TaskSubmit(index)
    \/ \E index \in PoolRunning : TaskSubmitError(index)
    \/ \E index \in PoolRunning : TaskDetailParseError(index)
    \/ \E index \in PoolRunning : TaskDetailParsed(index)

SpecPool == InitPool /\ [][NextPool]_vars

(***************************************************************************)
(* The sort.  A run taken up at wg.Wait() when every task has failed at    *)
(* its list fetch, so that examData holds the summary records of the       *)
(* initial listing in the order of the page: main sorts and prints.        *)
(***************************************************************************)
\* most records of a listing whose rows are drawn freely from SortPool
MaxSortLen == 3

Summary(date, time, location, city, region, status) ==
    [ExamAppointment EXCEPT !.DateTime = <<date, " ", time>>, !.Location = location,
                            !.City = <<city>>, !.Region = <<region>>,
                            !.Status = <<status>>]

\* two appointments equal in date_time, location and status, in two rooms the
\* page tells apart by the city column
TiedFirst ==
    Summary("08.11.2025,", "10:00", <<"Fischereiverband">>, "Augsburg", "Schwaben", "Frei")
TiedSecond ==
    Summary("08.11.2025,", "10:00", <<"Fischereiverband">>, "Bamberg", "Schwaben", "Frei")
\* an appointment at the same time at a place that sorts later
LaterPlace ==
    Summary("08.11.2025,", "10:00", <<"Sportfischer">>, "Regensburg", "Oberpfalz", "Frei")
\* a row whose date is no calendar date
NoCalendarDate ==
    Summary("31.02.2025,", "08:00", <<"Sportfischer">>, "Regensburg", "Oberpfalz", "Frei")
\* a row whose date is the first instant of year 1
YearOne ==
    Summary("01.01.0001,", "00:00", <<"Angelverein">>, "Bamberg", "Oberbayern", "Frei")

SortPool ==
    { TiedFirst, TiedSecond, LaterPlace, NoCalendarDate, YearOne,
      Summary("25.10.2025,", "10:00", <<"Fischereiverband">>, "Augsburg", "Schwaben", "Belegt"),
      Summary("08.11.2025,", "10:00", <<"Angelverein">>, "Bamberg", "Oberbayern", "Frei"),
      Summary("08.11.2025,", "10:00", <<"Fischereiverband">>, "Augsburg", "Schwaben", "Belegt") }

\* the listings of up to MaxSortLen rows, and the listings of one row more than
\* sort.Slice sorts by insertion: the two tied rows among rows of a later place
SortInputs ==
    UNION {[1..n -> SortPool] : n \in 0..MaxSortLen}
    \cup { [k \in 1..(maxInsertion + 1) |->
               IF k = i THEN TiedFirst ELSE IF k = j THEN TiedSecond ELSE LaterPlace]
           : i \in 1..(maxInsertion + 1), j \in 1..(maxInsertion + 1) }

\* the listing page that shows the records recs
SortListing(recs) ==
    [flow |-> 0,
     qs |-> << >>,
     forms |-> FormWith(GoodAction(0)),
     tables |-> << [textLen |-> 400, inside |-> 0,
                    rows |-> [p \in 1..Len(recs) |->
                                [cells |-> << recs[p].DateTime, recs[p].Location,
                                              recs[p].City, recs[p].Region,
                                              recs[p].Status >>,
                                 buttons |-> << [id |-> "select", row |-> p,
                                                 flow |-> 0] >>]]] >>,
     inputs |-> << >>]

InitSort ==
    \E recs \in SortInputs :
        LET n == Len(recs)
        IN  /\ pcMain = "wait"
            /\ mainRequests = << Request("GET", "base", 0, NoAction, << >>),
                                 Request("GET", "list", 0, NoAction, << >>) >>
            /\ doc = SortListing(recs)
            /\ formAction = FormActionOf(SortListing(recs))
            /\ examsToFetch = examsOf(SortListing(recs))
            /\ examData = [k \in 1..n |-> BasicInfo(examsOf(SortListing(recs))[k])]
            /\ spawned = n
            /\ wg = 0
            /\ semaphore = 0
            /\ jars = 0..n
            /\ pc = [k \in 1..n |-> "done"]
            /\ listDoc = [k \in 1..n |-> NoDoc]
            /\ detailDoc = [k \in 1..n |-> NoDetail]
            /\ requests = [k \in 1..n |->
                              << Request("GET", "base", ClientJar(k), NoAction, << >>),
                                 Request("GET", "list", ClientJar(k), NoAction, << >>) >>]
            /\ steps = [k \in 1..n |-> <<"OpenConversation", "FetchListing">>]
            /\ outcome = [k \in 1..n |-> "Degraded"]
            /\ cause = [k \in 1..n |-> "FetchError"]
            /\ writes = [k \in 1..n |-> <<k>>]
            /\ jsonOutput = NoOutput

NextSort == MainFinish

SpecSort == InitSort /\ [][NextSort]_vars

(***************************************************************************)
(* The extraction.  A run taken up when main waits for the answer to its   *)
(* list GET, the answer being a page whose tables hold rows of every kind  *)
(* the classification tells apart.                                         *)
(***************************************************************************)
\* most rows of the long table of such a page
MaxRows == 2

\* a row of one cell that names three cities
ThreeCityRow ==
    [cells |-> << <<"Augsburg", " ", "München", " ", "Nürnberg">> >>,
     buttons |-> << >>]

\* a data row of four cells: the page shows no status
FourCellRow(flow) ==
    [cells |-> << <<"08.11.2025,", " ", "08:00">>, <<"Sportfischer">>,
                  <<"Regensburg">>, <<"Oberpfalz">>, <<"-">> >>,
     buttons |-> << [id |-> "select", row |-> 4, flow |-> flow] >>]

\* a data row whose location names three places
ManyPlacesRow(flow) ==
    [cells |-> << <<"25.10.2025,", " ", "10:00">>,
                  <<"Landesanstalt", " ", "Augsburg", "\n", "Bamberg", " ", "Freising">>,
                  <<"Augsburg">>, <<"Schwaben">>, <<"Frei">> >>,
     buttons |-> << [id |-> "select", row |-> 5, flow |-> flow] >>]

\* a data row of few characters
CompactRow(flow) ==
    [cells |-> << <<"25.10.2025,", " ", "08:00">>, <<"Hof">>, <<"Hof">>,
                  <<"Oberfranken">> >>,
     buttons |-> << [id |-> "select", row |-> 6, flow |-> flow] >>]

RowPool ==
    { DataRow(1, 1, 0), DataRow(17, 2, 0), ThreeCityRow, ShortRow(0),
      FourCellRow(0), ManyPlacesRow(0) }

\* the text of the cells of rows, one after the other
RECURSIVE Flatten(_)
Flatten(rows) ==
    LET RECURSIVE cellsFrom(_, _)
        cellsFrom(row, k) == IF k > Len(row.cells) THEN << >>
                             ELSE row.cells[k] \o cellsFrom(row, k + 1)
    IN  IF rows = << >> THEN << >>
        ELSE cellsFrom(Head(rows), 1) \o Flatten(Tail(rows))

\* the one row of a layout table: a heading and, in the same cell, tables with
\* the rows inner
LayoutRow(inner) ==
    [cells |-> << <<"Termine", "\n">> \o Flatten(inner) >>,
     buttons |-> [k \in 1..Len(inner) |->
                     IF inner[k].buttons = << >> THEN NoName ELSE inner[k].buttons[1]]]

\* a page of two tables: one whose text has the minimum length or one character
\* more, with one row, and a long one with up to MaxRows rows; the two stand side by side, or
\* both lie in the one cell of a layout table
RowListings ==
    InitialListings
    \cup { [flow |-> 0, qs |-> << >>, forms |-> FormWith(GoodAction(0)),
            tables |-> IF layout = 0
                       THEN << [textLen |-> len, inside |-> 0, rows |-> <<small>>],
                               [textLen |-> 400, inside |-> 0, rows |-> rows] >>
                       ELSE << [textLen |-> 400 + len + 20, inside |-> 0,
                                rows |-> << LayoutRow(<<small>> \o rows) >>],
                               [textLen |-> len, inside |-> 1, rows |-> <<small>>],
                               [textLen |-> 400, inside |-> 1, rows |-> rows] >>,
            inputs |-> << >>]
           : layout \in {0, 1},
             len \in {MinTableText, MinTableText + 1},
             small \in {LegendRow, CompactRow(0)},
             rows \in UNION {[1..n -> RowPool] : n \in 1..MaxRows} }

InitExtract ==
    /\ pcMain = "list"
    /\ mainRequests = << Request("GET", "base", 0, NoAction, << >>),
                         Request("GET", "list", 0, NoAction, << >>) >>
    /\ doc = NoDoc
    /\ formAction = NoAction
    /\ examsToFetch = << >>
    /\ examData = << >>
    /\ spawned = 0
    /\ wg = 0
    /\ semaphore = 0
    /\ jars = {0}
    /\ pc = << >>
    /\ listDoc = << >>
    /\ detailDoc = << >>
    /\ requests = << >>
    /\ steps = << >>
    /\ outcome = << >>
    /\ cause = << >>
    /\ writes = << >>
    /\ jsonOutput = NoOutput

NextExtract ==
    \/ MainNoFormActionOf(RowListings)
    \/ MainExtractPanicsOf(RowListings)
    \/ MainExtractOf(RowListings)

SpecExtract == InitExtract /\ [][NextExtract]_vars

(***************************************************************************)
(* The match.  A run taken up when every task waits for the answer to its  *)
(* list GET, the initial listing being a page of two tables whose rows are *)
(* drawn from a pool and which the flow serves again to each session.      *)
(***************************************************************************)
\* most rows of the long table of such a page
MaxMatchRows == 2

\* the rows of the long table: two appointments at one place and time among them
MatchPool ==
    { DataRow(1, 1, 0), DataRow(2, 2, 0), DataRow(34, 3, 0), CompactRow(0) }

MatchListings ==
    { [flow |-> 0, qs |-> << >>, forms |-> FormWith(GoodAction(0)),
       tables |-> << [textLen |-> len, inside |-> 0, rows |-> <<small>>],
                     [textLen |-> 400, inside |-> 0, rows |-> rows] >>,
       inputs |-> << Input("javax.faces.ViewState", 0, 0, "hidden", "state", FALSE) >>]
      : len \in {MinTableText, MinTableText + 1},
        small \in {LegendRow, CompactRow(0)},
        rows \in UNION {[1..n -> MatchPool] : n \in 1..MaxMatchRows} }

InitMatch ==
    \E d \in MatchListings :
        LET n == Len(examsOf(d))
        IN  /\ pcMain = "wait"
            /\ mainRequests = << Request("GET", "base", 0, NoAction, << >>),
                                 Request("GET", "list", 0, NoAction, << >>) >>
            /\ doc = d
            /\ formAction = FormActionOf(d)
            /\ examsToFetch = examsOf(d)
            /\ examData = MakeExamData(n)
            /\ spawned = n
            /\ wg = n
            /\ semaphore = n
            /\ jars = 0..n
            /\ pc = [k \in 1..n |-> "list"]
            /\ listDoc = [k \in 1..n |-> NoDoc]
            /\ detailDoc = [k \in 1..n |-> NoDetail]
            /\ requests = [k \in 1..n |->
                              << Request("GET", "base", ClientJar(k), NoAction, << >>),
                                 Request("GET", "list", ClientJar(k), NoAction, << >>) >>]
            /\ steps = [k \in 1..n |-> <<"OpenConversation", "FetchListing">>]
            /\ outcome = [k \in 1..n |-> ""]
            /\ cause = [k \in 1..n |-> ""]
            /\ writes = [k \in 1..n |-> << >>]
            /\ jsonOutput = NoOutput

NextMatch ==
    \/ \E index \in Tasks : TaskNoMatch(index)
    \/ \E index \in Tasks : TaskSubmit(index)

SpecMatch == InitMatch /\ [][NextMatch]_vars

(***************************************************************************)
(* The detail parse.  A run of one task taken up when its POST is out; the *)
(* answer is a document whose texts are drawn from a pool.                 *)
(***************************************************************************)
\* most texts of such a document
MaxNodes == 4

\* the texts: three labels (setExamField has no case for "Ort"), two values, one
\* of them inside white space, a text that contains a label, a text of 120
\* bytes and a text of white space
NodePool ==
    { <<"Raum">>, <<"Status">>, <<"Ort">>, <<" ", "101", "\n">>, <<"102">>,
      <<"Raumplan">>, <<"LONG120">>, <<" ">> }

NodePages ==
    { [nodes |-> nodes] : nodes \in UNION {[1..n -> NodePool] : n \in 1..MaxNodes} }

InitParse ==
    LET d == ListingDoc(0, <<1>>, FormWith(GoodAction(0)))
        mine == ListingDoc(1, <<1>>, FormWith(GoodAction(1)))
    IN  /\ pcMain = "wait"
        /\ mainRequests = << Request("GET", "base", 0, NoAction, << >>),
                             Request("GET", "list", 0, NoAction, << >>) >>
        /\ doc = d
        /\ formAction = FormActionOf(d)
        /\ examsToFetch = examsOf(d)
        /\ examData = MakeExamData(1)
        /\ spawned = 1
        /\ wg = 1
        /\ semaphore = 1
        /\ jars = {0, 1}
        /\ pc = <<"submit">>
        /\ listDoc = <<mine>>
        /\ detailDoc = <<NoDetail>>
        /\ requests = << << Request("GET", "base", 1, NoAction, << >>),
                            Request("GET", "list", 1, NoAction, << >>),
                            Request("POST", "submit", 1, FormActionOf(mine),
                                    FormData(mine, findButtonForExam(mine, examsOf(d)[1]))) >> >>
        /\ steps = << <<"OpenConversation", "FetchListing", "Match", "Submit">> >>
        /\ outcome = <<"">>
        /\ cause = <<"">>
        /\ writes = << << >> >>
        /\ jsonOutput = NoOutput

NextParse == \E index \in Tasks : TaskDetailParsedOf(index, NodePages)

SpecParse == InitParse /\ [][NextParse]_vars

(***************************************************************************)
(* Redirects.  A run of one task taken up when its list GET is out; the    *)
(* flow answers each request of the chain with a redirect or with a page.  *)
(* examClient.Do calls CheckRedirect(req, via) before it follows a         *)
(* redirect, via being the requests of this call made so far, the first    *)
(* one included.                                                           *)
(***************************************************************************)
\* if len(via) >= 20 { return fmt.Errorf("too many redirects") }
maxRedirects == 20

\* CheckRedirect returns nil
CheckRedirect(via) == ~(Len(via) >= maxRedirects)

\* the requests of the list GET a task's client has made, redirects followed
\* included
ViaOf(index) == SelectSeq(requests[index], LAMBDA r : r.target = "list")

\* the answer to the last request of the chain is a redirect and CheckRedirect
\* lets it pass: the client sends the next request of the chain
TaskListRedirected(index) ==
    /\ Alive /\ pc[index] = "list"
    /\ CheckRedirect(ViaOf(index))
    /\ requests' = [requests EXCEPT ![index] =
                       Append(@, Request("GET", "list", ClientJar(index), NoAction, << >>))]
    /\ UNCHANGED <<mainVars, poolVars, slotVars, jars, pc, listDoc, detailDoc, steps,
                   outcome, cause>>

\* the answer is a redirect and CheckRedirect returns the error: examClient.Do
\* returns it and the task stores the basic record
TaskListTooManyRedirects(index) ==
    /\ Alive /\ pc[index] = "list"
    /\ ~CheckRedirect(ViaOf(index))
    /\ Degrade(index, "FetchError")
    /\ UNCHANGED <<mainVars, jars, detailDoc, requests, steps>>

InitRedirect ==
    LET d == ListingDoc(0, <<1>>, FormWith(GoodAction(0)))
    IN  /\ pcMain = "wait"
        /\ mainRequests = << Request("GET", "base", 0, NoAction, << >>),
                             Request("GET", "list", 0, NoAction, << >>) >>
        /\ doc = d
        /\ formAction = FormActionOf(d)
        /\ examsToFetch = examsOf(d)
        /\ examData = MakeExamData(1)
        /\ spawned = 1
        /\ wg = 1
        /\ semaphore = 1
        /\ jars = {0, 1}
        /\ pc = <<"list">>
        /\ listDoc = <<NoDoc>>
        /\ detailDoc = <<NoDetail>>
        /\ requests = << << Request("GET", "base", 1, NoAction, << >>),
                            Request("GET", "list", 1, NoAction, << >>) >> >>
        /\ steps = << <<"OpenConversation", "FetchListing">> >>
        /\ outcome = <<"">>
        /\ cause = <<"">>
        /\ writes = << << >> >>
        /\ jsonOutput = NoOutput

NextRedirect ==
    \/ \E index \in Tasks : TaskListRedirected(index)
    \/ \E index \in Tasks : TaskListTooManyRedirects(index)
    \/ \E index \in Tasks : TaskNoFormAction(index)
    \/ \E index \in Tasks : TaskNoMatch(index)
    \/ \E index \in Tasks : TaskSubmitPanics(index)
    \/ \E index \in Tasks : TaskSubmit(index)

SpecRedirect == InitRedirect /\ [][NextRedirect]_vars

(***************************************************************************)
(* Properties                                                              *)
(***************************************************************************)
HasDetail(e) == \E f \in DetailFields : e[f] # EmptyString
RequestsOf(index) == {requests[index][k] : k \in 1..Len(requests[index])}
PostsOf(index) == {r \in RequestsOf(index) : r.method = "POST"}
JarsUsedBy(index) == {r.jar : r \in RequestsOf(index)}
MainJars == {mainRequests[k].jar : k \in 1..Len(mainRequests)}
\* the tasks between their send to the channel and their deferred receive (a task
\* that panicked has not received)
Holders == {i \in Tasks : pc[i] \in {"base", "list", "submit", "panic"}}
TaskSteps == <<"OpenConversation", "FetchListing", "Match", "Submit", "Parse">>
IsPrefix(a, b) == Len(a) <= Len(b) /\ a = SubSeq(b, 1, Len(a))

\* C1: when the run has printed its output, the output holds as many records as
\* summary records were extracted from the initial listing, and total_count says
\* so, whichever tasks failed at whichever step.
C1_OutputCount ==
    pcMain = "done" =>
        /\ Len(jsonOutput.ExamAppointments) = Len(examsToFetch)
        /\ jsonOutput.TotalCount = Len(examsToFetch)

\* a finished run of three records with a failed and a successful task
C1_Witness ==
    /\ pcMain = "done"
    /\ Len(examsToFetch) = 3
    /\ \E i \in Tasks : outcome[i] = "Degraded"
    /\ \E i \in Tasks : outcome[i] = "Success"

\* C2: a task that failed at a step (list fetch, list parse, missing form action,
\* no matching row, submission) has stored in its slot its summary record, with
\* every detail field empty.
C2_DegradedIsSummary ==
    pcMain # "done" =>
        \A i \in Tasks :
            outcome[i] = "Degraded" =>
                /\ examData[i] = examsToFetch[i]
                /\ \A f \in DetailFields : examData[i][f] = EmptyString

\* tasks that failed at the submission, for lack of a matching row and for lack
\* of a form action
C2_Witness ==
    /\ pcMain = "wait"
    /\ \E i \in Tasks : outcome[i] = "Degraded" /\ cause[i] = "SubmissionError"
    /\ \E i \in Tasks : outcome[i] = "Degraded" /\ cause[i] = "NoMatch"
    /\ \E i \in Tasks : outcome[i] = "Degraded" /\ cause[i] = "NoSubmissionTarget"

\* C3: the record in slot j is decided by task j alone: the fully parsed record
\* when its own conversation succeeded, its summary record when it failed, the
\* zero value while it has stored nothing, whatever the other tasks did.
C3_FaultIsolation ==
    pcMain # "done" =>
        \A j \in Tasks :
            /\ outcome[j] = "Success" =>
                  examData[j] = parseDetailPage(detailDoc[j], examsToFetch[j])
            /\ outcome[j] = "Degraded" => examData[j] = examsToFetch[j]
            /\ outcome[j] = "" => examData[j] = ExamAppointment

\* task 2 of 3 failed at its submission, every task has returned, and the two
\* others have stored a record with detail fields
C3_Witness ==
    /\ pcMain = "wait" /\ wg = 0
    /\ Len(examsToFetch) = 3
    /\ outcome[2] = "Degraded" /\ cause[2] = "SubmissionError"
    /\ outcome[1] = "Success" /\ HasDetail(examData[1])
    /\ outcome[3] = "Success" /\ HasDetail(examData[3])
    /\ ~HasDetail(examData[2])

\* C4: once goroutines are started no failure inside a task ends the run: no task
\* panics, and the process ends early (log.Fatal, panic) only before the for loop.
C4_TaskFailureNeverEndsRun ==
    /\ \A i \in Tasks : pc[i] # "panic"
    /\ pcMain \in {"panic", "fatal"} => spawned = 0

\* C5: the requests of a task all use one jar, created by that task, which no
\* other task and not main uses; the listing a task holds was served to that jar.
C5_OwnSessionStore ==
    \A i \in Tasks :
        /\ Cardinality(JarsUsedBy(i)) <= 1
        /\ JarsUsedBy(i) \subseteq jars
        /\ JarsUsedBy(i) \cap MainJars = {}
        /\ \A j \in Tasks \ {i} : JarsUsedBy(i) \cap JarsUsedBy(j) = {}
        /\ listDoc[i] # NoDoc => listDoc[i].flow \in JarsUsedBy(i)

\* two tasks have each sent their three requests
C5_Witness ==
    \E i, j \in Tasks :
        /\ i # j
        /\ Len(requests[i]) = 3 /\ Len(requests[j]) = 3
        /\ PostsOf(i) # {} /\ PostsOf(j) # {}

\* C6: the form action and the button a task posts are read from the listing
\* that was served to the task's own session: never from the initial listing
\* (flow 0), never from another task's listing.
C6_ControlsOfOwnListing ==
    \A i \in Tasks :
        \A r \in PostsOf(i) :
            /\ r.action.flow = r.jar /\ r.action.flow # 0
            /\ r.jar \in JarsUsedBy(i)
            /\ \A n \in DOMAIN r.form : n.flow = r.jar
            /\ pc[i] = "submit" =>
                  /\ listDoc[i].flow = r.jar
                  /\ r.action = FormActionOf(listDoc[i])
                  /\ PostedButton(i) = findButtonForExam(listDoc[i], examsToFetch[i])

\* a task has posted the button of a row that is not at the position the row had
\* in the initial listing
C6_Witness ==
    \E i \in Tasks :
        /\ pc[i] = "submit"
        /\ PostedButton(i).row # i
        /\ PostedButton(i) # findButtonForExam(doc, examsToFetch[i])

C8_SortAfterBarrier ==
    pcMain = "done" =>
        \A i \in Tasks :
            /\ pc[i] = "done"
            /\ outcome[i] \in {"Success", "Degraded"}
            /\ Len(writes[i]) = 1

\* main has printed the output of three tasks
C8_Witness ==
    /\ pcMain = "done"
    /\ Len(examsToFetch) = 3
    /\ jsonOutput.TotalCount = 3

\* C9: at most maxWorkers (10) tasks hold a pool slot at any moment, and the
\* channel holds one element for each of them.
C9_PoolBound ==
    /\ Cardinality(Holders) <= maxWorkers
    /\ semaphore = Cardinality(Holders)

\* the pool is full and a started task waits for a slot
C9_Witness ==
    /\ Cardinality(Holders) = maxWorkers
    /\ Len(examsToFetch) > maxWorkers
    /\ \E i \in Tasks : pc[i] = "acquire"

\* C10: a task begins its steps in the order OpenConversation, FetchListing, Match,
\* Submit, Parse; a POST is its third request, after the GETs of the base page
\* and of the listing, to a form action that was found and with a button that was
\* matched; a task parses only the document its POST returned.
C10_StepOrder ==
    \A i \in Tasks :
        /\ IsPrefix(steps[i], TaskSteps)
        /\ \A r \in PostsOf(i) :
              /\ Len(requests[i]) = 3 /\ requests[i][3] = r
              /\ requests[i][1].target = "base" /\ requests[i][2].target = "list"
              /\ r.action.url # ""
              /\ NoName \notin DOMAIN r.form
              /\ Len(steps[i]) >= 4
        /\ Len(steps[i]) >= 4 => Len(requests[i]) >= 2
        /\ Len(steps[i]) = 5 => PostsOf(i) # {} /\ detailDoc[i] # NoDetail
        /\ outcome[i] = "Success" <=> Len(steps[i]) = 5

\* a task has gone through all five steps
C10_Witness ==
    \E i \in Tasks :
        /\ outcome[i] = "Success"
        /\ steps[i] = TaskSteps
        /\ HasDetail(examData[i])

\* the requests of a task to one target
RequestsTo(reqs, target) == {k \in 1..Len(reqs) : reqs[k].target = target}

\* C11: no step is retried: a task sends at most one GET of the base page, one GET
\* of the list page and one POST, and once it has failed (or succeeded) it sends
\* no further request.
C11_NoRetry ==
    [][\A i \in 1..Len(requests') :
          /\ Cardinality(RequestsTo(requests'[i], "base")) <= 1
          /\ Cardinality(RequestsTo(requests'[i], "list")) <= 1
          /\ Cardinality(RequestsTo(requests'[i], "submit")) <= 1
          /\ (i \in DOMAIN outcome /\ outcome[i] # "") => requests'[i] = requests[i]
      ]_vars

\* the run has ended; a task failed at the match after its two GETs and another
\* sent its three requests
C11_Witness ==
    /\ pcMain = "done"
    /\ \E i \in Tasks : /\ outcome[i] = "Degraded" /\ cause[i] = "NoMatch"
                        /\ Len(requests[i]) = 2
    /\ \E j \in Tasks : outcome[j] = "Success" /\ Len(requests[j]) = 3

\* C12: when the initial listing is not obtained (the GET fails, the status is not
\* 200, the body does not parse, the page has no form action) main ends in
\* log.Fatal: no goroutine was started, nothing is printed, and no step follows;
\* goroutines are started only with a listing that has a form action.
C12_InitialFailureIsFatal ==
    /\ [](/\ pcMain = "fatal" =>
               /\ spawned = 0 /\ pc = << >> /\ examsToFetch = << >>
               /\ jsonOutput = NoOutput
          /\ (doc # NoDoc /\ FormActionOf(doc).url = "") => pcMain = "fatal"
          /\ pcMain \in {"spawn", "wait", "done"} =>
               doc # NoDoc /\ FormActionOf(doc).url # "")
    /\ [][pcMain # "fatal"]_vars

\* main has ended on a listing without a form action
C12_Witness ==
    /\ pcMain = "fatal"
    /\ doc # NoDoc /\ FormActionOf(doc).url = ""
    /\ Len(ExamRowCells(doc)) > 0

\* the record of task i as the answers to its requests decide it
RecordOfResponses(i) ==
    IF outcome[i] = "Success"
    THEN parseDetailPage(detailDoc[i], examsOf(doc)[i])
    ELSE examsOf(doc)[i]

\* C13: what main prints is a function of the remote answers alone (the initial
\* listing, and for each task whether its requests failed and the detail
\* document it got): the same in every order in which the tasks run and end.
C13_OutputOfResponses ==
    pcMain = "done" =>
        jsonOutput = OutputData(sortExamData(
                         [i \in 1..Len(examsOf(doc)) |-> RecordOfResponses(i)]))

\* the output of two records that the sort leaves in the order of their input
\* positions (equal date_time, location and status) and that differ
C13_Witness ==
    /\ pcMain = "done"
    /\ doc.qs = TiedAppointments
    /\ \A i \in Tasks : outcome[i] = "Success"
    /\ ~less(examData[1], examData[2]) /\ ~less(examData[2], examData[1])
    /\ examData[1] # examData[2]

Tied(x, y) == ~less(x, y) /\ ~less(y, x)

\* C15: the sort is stable: the records that compare equal on (parsed date_time,
\* location, status) stand in the output in the order of their input positions.
\* (The slice main sorts holds the summary records in the order of examsToFetch.)
C15_SortStable ==
    pcMain = "done" =>
        \A k \in 1..Len(examsToFetch) :
            SelectSeq(examData, LAMBDA e : Tied(e, examsToFetch[k]))
              = SelectSeq(examsToFetch, LAMBDA e : Tied(e, examsToFetch[k]))

\* C16: in the output every record whose date_time time.Parse rejects stands
\* before every record whose date_time it parses.
C16_UnparseableFirst ==
    pcMain = "done" =>
        \A k, m \in 1..Len(examData) :
            (~Parses(examData[k].DateTime) /\ Parses(examData[m].DateTime)) => k < m

\* the rows of a listing that hold the button b
RowsOfButton(d, b) ==
    {k \in 1..Len(AllRows(d)) :
        \E n \in 1..Len(AllRows(d)[k].buttons) : AllRows(d)[k].buttons[n] = b}

\* the first two cells of row k of d are the target's date_time and location
CellsEqualTarget(d, k, target) ==
    LET cells == MatchCells(AllRows(d)[k])
    IN  Len(cells) >= 2 /\ cells[1] = target.DateTime /\ cells[2] = target.Location

\* C17: a button findButtonForExam returns is the button of a row whose first two
\* cells are the target's date_time and location: for every listing the list
\* GET of a task may be answered with, and for the button a task has posted.
C17_ControlOfMatchingRow ==
    \A i \in Tasks :
        /\ pc[i] = "list" =>
              \A d \in SessionListings(ClientJar(i), doc.qs) :
                  LET b == findButtonForExam(d, examsToFetch[i])
                  IN  b # NoName =>
                         /\ RowsOfButton(d, b) # {}
                         /\ \A k \in RowsOfButton(d, b) :
                               CellsEqualTarget(d, k, examsToFetch[i])
        /\ pc[i] = "submit" =>
              \A k \in RowsOfButton(listDoc[i], PostedButton(i)) :
                  CellsEqualTarget(listDoc[i], k, examsToFetch[i])

\* a task has posted the button of its row, which stands below a row of the same
\* date_time and another location
C17_Witness ==
    \E i \in Tasks :
        /\ pc[i] = "submit"
        /\ \E k \in RowsOfButton(listDoc[i], PostedButton(i)) :
              \E j \in 1..(k - 1) :
                  LET cells == MatchCells(AllRows(listDoc[i])[j])
                  IN  /\ Len(cells) >= 3
                      /\ cells[1] = examsToFetch[i].DateTime
                      /\ cells[2] # examsToFetch[i].Location

\* C18: when no row of the listing a task is served has first two cells equal to
\* the target's date_time and location, findButtonForExam returns no button; and
\* a task that found no button has posted nothing, has stored its summary record
\* and has returned (Degraded), the run going on.
C18_NoMatchDegrades ==
    \A i \in Tasks :
        /\ pc[i] = "list" =>
              \A d \in SessionListings(ClientJar(i), doc.qs) :
                  (\A k \in 1..Len(AllRows(d)) : ~CellsEqualTarget(d, k, examsToFetch[i]))
                      => findButtonForExam(d, examsToFetch[i]) = NoName
        /\ cause[i] = "NoMatch" =>
              /\ outcome[i] = "Degraded" /\ pc[i] = "done"
              /\ PostsOf(i) = {} /\ detailDoc[i] = NoDetail
              /\ Len(requests[i]) = 2
              /\ pcMain # "done" => examData[i] = examsToFetch[i]
              /\ pcMain # "panic" \/ \E j \in Tasks : pc[j] = "panic"

\* a task whose row had gone from a listing that still held other rows with
\* buttons has ended without a POST, its summary record stored
C18_Witness ==
    \E i \in Tasks :
        /\ Len(examsToFetch) >= 2
        /\ cause[i] = "NoMatch" /\ outcome[i] = "Degraded"
        /\ PostsOf(i) = {}
        /\ pcMain = "wait"
        /\ examData[i] = examsToFetch[i] /\ ~HasDetail(examData[i])

\* C19: the five summary fields of a record are those of its summary record: in
\* the slot a task has stored to, and in the printed output, which holds one
\* record for each summary record (in sorted order).
C19_SummaryFieldsKept ==
    /\ pcMain # "done" =>
          \A i \in Tasks :
              Len(writes[i]) = 1 =>
                  \A f \in SummaryFields : examData[i][f] = examsToFetch[i][f]
    /\ pcMain = "done" =>
          /\ Len(jsonOutput.ExamAppointments) = Len(examsToFetch)
          /\ \E p \in Permutations(Tasks) :
                \A k \in Tasks :
                    \A f \in SummaryFields :
                        jsonOutput.ExamAppointments[k][f] = examsToFetch[p[k]][f]

\* the output holds a record whose detail page had a Status label with a value
\* other than the status of the listing
C19_Witness ==
    /\ pcMain = "done"
    /\ Len(examsToFetch) >= 2
    /\ \E k \in 1..Len(jsonOutput.ExamAppointments) :
          LET e == jsonOutput.ExamAppointments[k]
          IN  /\ "DetailStatus" \in DOMAIN e
              /\ e.DetailStatus # e.Status
              /\ e.Status \in {<<"Frei">>, <<"Belegt">>}

\* C20: the record of a task that has returned has no detail field exactly when
\* the task ended Degraded.
C20_NoDetailIffDegraded ==
    pcMain # "done" =>
        \A i \in Tasks :
            pc[i] = "done" => (~HasDetail(examData[i]) <=> outcome[i] = "Degraded")

\* main has read the listing and gone on to the for loop
ListingRead == pcMain \in {"spawn", "wait", "done"}

\* the rows main reads that have at least 3 cells and a first cell of the
\* date/time shape, as the cells main keeps of them
ShapedRows(d) ==
    LET rows == ExtractRows(d)
    IN  SelectSeq([k \in 1..Len(rows) |-> ExtractCells(rows[k])], isValidExamRow)

\* C21: every row with at least 3 cells whose first cell has the date/time shape
\* is a Data row and has its summary record: once a listing with a form action
\* is answered, the summary records are the records of these rows, one each, in
\* the order of the page.
C21_ShapedRowsAreData ==
    (doc # NoDoc /\ FormActionFound(FormActionOf(doc))) =>
        /\ Len(examsToFetch) = Len(ShapedRows(doc))
        /\ \A k \in 1..Len(examsToFetch) :
              /\ examsToFetch[k].DateTime = ShapedRows(doc)[k][1]
              /\ examsToFetch[k].Location = ShapedRows(doc)[k][2]
              /\ examsToFetch[k].City = ShapedRows(doc)[k][3]

\* the known tokens that lie in a cell, lower case against lower case
TokensIn(cell) ==
    {cities[k] : k \in {j \in 1..Len(cities) : ContainsLower(cell, cities[j])}}
    \cup {regions[k] : k \in {j \in 1..Len(regions) : ContainsLower(cell, regions[j])}}

\* some one cell holds more than two known tokens, or the free and the occupied token
HeaderCell(cell) ==
    \/ Cardinality(TokensIn(cell)) > 2
    \/ ContainsLower(cell, "frei") /\ ContainsLower(cell, "belegt")

\* C22: a row is a HeaderSeparator exactly when one of its cells holds more than
\* two of the known city and region tokens, or both the free and the occupied
\* token (whatever the case of the letters); so no summary record has such a
\* cell, and a row whose tokens lie in several cells is no HeaderSeparator.
C22_HeaderSeparatorRule ==
    /\ \A k \in 1..Len(AllRows(doc)) :
          LET cells == ExtractCells(AllRows(doc)[k])
          IN  isHeaderSeparatorRow(cells) <=> \E c \in 1..Len(cells) : HeaderCell(cells[c])
    /\ \A i \in 1..Len(examsToFetch) :
          \A f \in SummaryFields : ~HeaderCell(examsToFetch[i][f])

\* the listing held a row of one cell naming three cities, which gave no record,
\* and a row with three tokens in three cells, which gave one
C22_Witness ==
    /\ ListingRead
    /\ \E k \in 1..Len(ExtractRows(doc)) : ExtractRows(doc)[k] = ThreeCityRow
    /\ \E i \in 1..Len(examsToFetch) :
          /\ Cardinality(TokensIn(examsToFetch[i].Location)) = 1
          /\ Cardinality(TokensIn(examsToFetch[i].Location)
                          \cup TokensIn(examsToFetch[i].City)
                          \cup TokensIn(examsToFetch[i].Region)) = 3
    /\ Len(examsToFetch) < Len(ExtractRows(doc))

\* the page of the scenario: a table of 20 characters, and a table of 400
\* characters with a header row and three data rows
ScenarioListing == ListingDoc(0, UpTo(3), FormWith(GoodAction(0)))

\* C23: a table whose text is not longer than 50 characters contributes no
\* record: no summary record is the record of a row of such a table; and the
\* page of the scenario gives the three records of its second table, in the
\* order of its rows.
C23_ShortTablesGiveNoRecord ==
    ListingRead =>
        /\ \A t \in 1..Len(doc.tables) :
              doc.tables[t].textLen <= MinTableText =>
                  \A r \in 1..Len(doc.tables[t].rows) :
                      LET cells == ExtractCells(doc.tables[t].rows[r])
                      IN  IsExamRow(cells) =>
                              \A i \in 1..Len(examsToFetch) :
                                  examsToFetch[i] # ExamOfCells(cells)
        /\ doc = ScenarioListing =>
              examsToFetch =
                  << Summary("08.11.2025,", "10:00", <<"Fischereiverband">>,
                             "Bamberg", "Oberbayern", "Frei"),
                     Summary("25.10.2025,", "10:00", <<"Fischereiverband">>,
                             "Regensburg", "Oberpfalz", "Frei"),
                     Summary("08.11.2025,", "10:00", <<"Angelverein">>,
                             "Augsburg", "Schwaben", "Belegt") >>

\* C25: the extraction never reads a cell a row does not have: main does not
\* panic while it reads the listing (a panic of the process is the panic of a
\* task).
C25_ExtractionNeverAborts ==
    pcMain = "panic" => \E i \in Tasks : pc[i] = "panic"

\* the rows of d whose first two cells are the target's date_time and location
EqualRows(d, target) ==
    {k \in 1..Len(AllRows(d)) : CellsEqualTarget(d, k, target)}

\* the first of a non-empty set of rows
FirstRow(rows) == CHOOSE k \in rows : \A j \in rows : k <= j

\* C24: whenever the listing of a task's session holds a row whose first two
\* cells equal the target's, findButtonForExam returns a button, and it is a
\* button of the first such row: for every listing the list GET of a task may
\* be answered with, and for the button a task has posted.
C24_ControlOfFirstEqualRow ==
    \A i \in Tasks :
        /\ pc[i] = "list" =>
              \A d \in SessionListings(ClientJar(i), doc.qs) :
                  LET b == findButtonForExam(d, examsToFetch[i])
                      equal == EqualRows(d, examsToFetch[i])
                  IN  equal # {} =>
                         /\ b # NoName
                         /\ FirstRow(equal) \in RowsOfButton(d, b)
        /\ pc[i] = "submit" =>
              LET equal == EqualRows(listDoc[i], examsToFetch[i])
              IN  equal # {} =>
                     FirstRow(equal) \in RowsOfButton(listDoc[i], PostedButton(i))

\* C26: when every request returns, a run whose tasks are started goes on until
\* every task has ended Success or Degraded and has given its slot back, and
\* main has printed the output.
C26_RunEndsWithOutput ==
    (pcMain \in {"spawn", "wait"}) ~>
        (/\ pcMain = "done"
         /\ jsonOutput # NoOutput
         /\ semaphore = 0
         /\ \A i \in Tasks : pc[i] = "done" /\ outcome[i] \in {"Success", "Degraded"})

\* the tasks that wait for the answer to a request
Pending == {i \in Tasks : pc[i] \in {"base", "list", "submit"}}

\* C27: nothing ends a request that does not return: while a task waits for an
\* answer, main stays at wg.Wait(), cannot pass it and has printed nothing, and
\* the task keeps its slot.
C27_PendingRequestBlocksOutput ==
    Pending # {} =>
        /\ pcMain \in {"spawn", "wait", "panic"}
        /\ ~ENABLED MainFinish
        /\ jsonOutput = NoOutput
        /\ wg >= Cardinality(Pending)
        /\ semaphore >= Cardinality(Pending)

\* every task but one has returned, that one waits for the answer to its POST,
\* and main waits for it
C27_Witness ==
    /\ pcMain = "wait"
    /\ Len(examsToFetch) = 3
    /\ \E i \in Tasks :
          /\ pc[i] = "submit"
          /\ \A j \in Tasks \ {i} : pc[j] = "done"
    /\ wg = 1
    /\ jsonOutput = NoOutput

\* the form data of the POST task i has sent
PostedForm(i) == requests[i][Len(requests[i])].form

\* the inputs of a listing, by their place in the document
InputsOf(d) == 1..Len(d.inputs)

\* input k of d has a name (the attribute exists and is not empty)
IsNamed(d, k) == d.inputs[k].hasName /\ d.inputs[k].name # NoName

\* C28: the form data a task has posted hold the button findButtonForExam found
\* in the task's listing, with the empty value; no field of the name of another
\* submit or image input, no value of a submit or image input; and of the select
\* buttons of the rows the matched one alone.
C28_OnlyMatchedControl ==
    \A i \in Tasks :
        pc[i] = "submit" =>
            LET d == listDoc[i]
                form == PostedForm(i)
                b == findButtonForExam(d, examsToFetch[i])
                buttons == {k \in InputsOf(d) : d.inputs[k].type \in {"submit", "image"}}
                rowControls ==
                    {d.inputs[k].name : k \in {j \in buttons : d.inputs[j].name.id = "select"}}
            IN  /\ b \in DOMAIN form
                /\ form[b] = EmptyValue
                /\ \A k \in buttons :
                      /\ d.inputs[k].name # b => d.inputs[k].name \notin DOMAIN form
                      /\ \A n \in DOMAIN form : form[n] # d.inputs[k].value
                /\ DOMAIN form \cap rowControls = {b}

\* a task has posted the button of the second row of a listing of three rows,
\* whose page holds a submit input and an image input with values
C28_Witness ==
    \E i \in Tasks :
        /\ pc[i] = "submit"
        /\ Len(listDoc[i].qs) = 3
        /\ findButtonForExam(listDoc[i], examsToFetch[i]).row = 2
        /\ \E k \in InputsOf(listDoc[i]) :
              /\ listDoc[i].inputs[k].type = "submit"
              /\ listDoc[i].inputs[k].name.id = "suchen"
              /\ listDoc[i].inputs[k].value.v = "Suchen"
        /\ \E k \in InputsOf(listDoc[i]) :
              /\ listDoc[i].inputs[k].type = "image"
              /\ IsNamed(listDoc[i], k)

\* C29: every named input of the task's listing that is no submit, image or
\* checkbox input has its field in the form data the task has posted, with the
\* value the input has in the document.
C29_EveryFieldCopied ==
    \A i \in Tasks :
        pc[i] = "submit" =>
            \A k \in InputsOf(listDoc[i]) :
                LET s == listDoc[i].inputs[k]
                IN  (IsNamed(listDoc[i], k) /\ s.type \notin {"submit", "image", "checkbox"}) =>
                        /\ s.name \in DOMAIN PostedForm(i)
                        /\ PostedForm(i)[s.name] = s.value

\* C30: a named checkbox of the task's listing has its field in the form data
\* the task has posted exactly when it is checked, and then with its value.
C30_CheckedCheckboxesOnly ==
    \A i \in Tasks :
        pc[i] = "submit" =>
            \A k \in InputsOf(listDoc[i]) :
                LET s == listDoc[i].inputs[k]
                IN  (IsNamed(listDoc[i], k) /\ s.type = "checkbox") =>
                        /\ s.name \in DOMAIN PostedForm(i) <=> s.checked
                        /\ s.checked => PostedForm(i)[s.name] = s.value

\* a task has posted the form data of a listing with a checked and an unchecked
\* checkbox: the one is in the form data, the other is not
C30_Witness ==
    \E i \in Tasks :
        /\ pc[i] = "submit"
        /\ \E k, m \in InputsOf(listDoc[i]) :
              /\ listDoc[i].inputs[k].type = "checkbox" /\ listDoc[i].inputs[k].checked
              /\ listDoc[i].inputs[m].type = "checkbox" /\ ~listDoc[i].inputs[m].checked
              /\ listDoc[i].inputs[k].name \in DOMAIN PostedForm(i)
              /\ listDoc[i].inputs[m].name \notin DOMAIN PostedForm(i)

\* the rows of d that stand before the rows of table t
RECURSIVE RowsBefore(_, _)
RowsBefore(d, t) ==
    IF t <= 1 THEN 0 ELSE RowsBefore(d, t - 1) + Len(d.tables[t - 1].rows)

\* the table of d that row k of AllRows(d) is a row of
TableOfRow(d, k) ==
    CHOOSE t \in 1..Len(d.tables) :
        RowsBefore(d, t) < k /\ k <= RowsBefore(d, t) + Len(d.tables[t].rows)

\* row k of d is a row main reads, below a table longer than the minimum, and
\* keeps as a Data row
KeptAsData(d, k) ==
    LET t == TableOfRow(d, k)
    IN  /\ \E u \in 1..Len(d.tables) :
              /\ d.tables[u].textLen > MinTableText
              /\ u = t \/ LiesIn(d, t, u)
        /\ IsExamRow(ExtractCells(AllRows(d)[k]))

\* the rows of d findButtonForExam may take a button from
SelectableRows(d, target) ==
    {k \in 1..Len(AllRows(d)) :
        RowMatches(AllRows(d)[k], target) /\ RowButton(AllRows(d)[k]) # NoName}

\* C31: the row whose button a task has posted, the first row of its listing
\* that findButtonForExam matches and finds a button in, is a row the extraction
\* keeps as a Data row of that listing: a row below a table longer than the
\* minimum, no HeaderSeparator, of the date/time shape.
C31_SelectedRowIsDataRow ==
    \A i \in Tasks :
        pc[i] = "submit" =>
            LET rows == SelectableRows(listDoc[i], examsToFetch[i])
            IN  rows # {} => KeptAsData(listDoc[i], FirstRow(rows))

\* C32: round trip between the extraction and findButtonForExam.  For the
\* initial listing served again to a task's session and the summary record the
\* extraction produced for that task, the listing holds a row that the row test
\* of findButtonForExam accepts (its first two cells, normalised, are the
\* record's date_time and location); and when every such row carries a button,
\* findButtonForExam returns one, so the task does not fail for want of a row.
C32_RoundTrip ==
    \A i \in Tasks :
        LET d == Reflow(doc, ClientJar(i))
            target == examsToFetch[i]
            equal == {k \in 1..Len(AllRows(d)) : RowMatches(AllRows(d)[k], target)}
        IN  /\ equal # {}
            /\ (\A k \in equal : RowButton(AllRows(d)[k]) # NoName)
                  => ButtonFound(findButtonForExam(d, target))

\* a task has read the initial listing in its own session and posted the button
\* of a row whose date cell arrived with line breaks, tabs and double spaces
C32_Witness ==
    \E i \in Tasks :
        /\ pc[i] = "submit"
        /\ listDoc[i] = Reflow(doc, ClientJar(i))
        /\ \E k \in SelectableRows(listDoc[i], examsToFetch[i]) :
              /\ AllRows(listDoc[i])[k].cells[1] # examsToFetch[i].DateTime
              /\ KeptAsData(listDoc[i], k)

\* the tasks whose detail document has been parsed
ParsedTasks == {i \in Tasks : outcome[i] = "Success"}

\* the parse of task i: the texts visited and the states before and after them
ParseOf(i) ==
    [text |-> [k \in 1..Len(detailDoc[i].nodes) |-> TrimSpace(detailDoc[i].nodes[k])],
     st |-> ParseStates(detailDoc[i], examsToFetch[i], Len(detailDoc[i].nodes))]

Visits(tr) == 1..Len(tr.text)
Before(tr, k) == tr.st[k]
After(tr, k) == tr.st[k + 1]

\* the text of visit k passes the tests the sentence of the value names: a label
\* is active, the text is not empty, shorter than the ceiling, not the active
\* label and without the active label inside
ValueTests(tr, k) ==
    /\ Before(tr, k).currentLabel # EmptyString
    /\ tr.text[k] # EmptyString
    /\ ByteLen(tr.text[k]) < MaxValueText
    /\ tr.text[k] # Before(tr, k).currentLabel
    /\ ~TextContains(tr.text[k], Before(tr, k).currentLabel)

\* visit k takes its text as the value of the active label: the cursor clears,
\* and the field of the label, when this is its first value, is the text
Accepted(tr, k) ==
    /\ After(tr, k).currentLabel = EmptyString
    /\ After(tr, k).exam =
          IF Before(tr, k).currentLabel \in Before(tr, k).detailsSet
          THEN Before(tr, k).exam
          ELSE setExamField(Before(tr, k).exam, Before(tr, k).currentLabel, tr.text[k])

\* C33 as stated: once a label is active, every visited text that is not
\* empty, shorter than the ceiling, not the active label and without the active
\* label inside is taken as the value of the active label, and the cursor clears.
C33_NextTextIsValue ==
    \A i \in ParsedTasks :
        LET tr == ParseOf(i)
        IN  \A k \in Visits(tr) : ValueTests(tr, k) => Accepted(tr, k)

\* C33 amended: once a label is active, every visited text that is not empty,
\* shorter than the ceiling, not the active label, without the active label
\* inside and not a label of the vocabulary is taken as the value of the
\* active label, and the cursor clears; a text that is a label of the
\* vocabulary becomes the active label and no value is taken.
C33_NextTextThatIsNoLabelIsValue ==
    \A i \in ParsedTasks :
        LET tr == ParseOf(i)
        IN  \A k \in Visits(tr) :
              /\ (ValueTests(tr, k) /\ ~IsLabel(tr.text[k])) => Accepted(tr, k)
              /\ (ByteLen(tr.text[k]) <= MaxNodeText /\ IsLabel(tr.text[k]))
                    => /\ After(tr, k).currentLabel = tr.text[k]
                       /\ After(tr, k).exam = Before(tr, k).exam

\* a label was active, a text of 120 bytes and a text that contains the label
\* were passed over, and the next text, visited inside white space, became the
\* value of the label's field
C33_Witness ==
    \E i \in ParsedTasks :
        LET tr == ParseOf(i)
        IN  /\ Len(tr.text) = 4
            /\ tr.text[1] = <<"Raum">>
            /\ {tr.text[2], tr.text[3]} \subseteq {<<"LONG120">>, <<"Raumplan">>}
            /\ ValueTests(tr, 4) /\ Accepted(tr, 4)
            /\ detailDoc[i].nodes[4] # tr.text[4]
            /\ examData[i].Room = tr.text[4]

\* visit k of a parse writes the detail field f
Assigns(tr, k, f) == After(tr, k).exam[f] # Before(tr, k).exam[f]

\* C34: first assignment wins.  During one parse no visit changes a detail
\* field that already has a value, so each detail field is written by at most
\* one visit, and the record the task stores has, in every detail field, the
\* value of that visit: later label/value pairs of the same label leave it as
\* it is.
C34_FirstAssignmentWins ==
    \A i \in ParsedTasks :
        LET tr == ParseOf(i)
        IN  \A f \in DetailFields :
              /\ \A k \in Visits(tr) :
                    Before(tr, k).exam[f] # EmptyString => ~Assigns(tr, k, f)
              /\ Cardinality({k \in Visits(tr) : Assigns(tr, k, f)}) <= 1
              /\ pcMain # "done" =>
                    \A k \in Visits(tr) :
                        Assigns(tr, k, f) => examData[i][f] = tr.text[k]

\* a parse in which the label Raum got a value and, later, the same label was
\* active again and another text passed the value tests: the room stored is
\* the first of the two
C34_Witness ==
    \E i \in ParsedTasks :
        LET tr == ParseOf(i)
        IN  \E k, m \in Visits(tr) :
              /\ k < m
              /\ Assigns(tr, k, "Room")
              /\ Before(tr, m).currentLabel = <<"Raum">>
              /\ ValueTests(tr, m) /\ ~IsLabel(tr.text[m])
              /\ tr.text[m] # tr.text[k]
              /\ examData[i].Room = tr.text[k]

\* the label setExamField writes the detail field f for
FieldLabel(f) ==
    CHOOSE l \in {labels[n] : n \in 1..Len(labels)} :
        setExamField(ExamAppointment, l, <<"x">>)[f] = <<"x">>

\* visit m takes a value: a label was active before it and none is after it
TakesValue(tr, m) ==
    Before(tr, m).currentLabel # EmptyString /\ After(tr, m).currentLabel = EmptyString

\* C35: a visit writes a detail field only with its own text and only when an
\* earlier visit met a text equal to the label of that field and no visit in
\* between met a label or took a value; a visit made while no label is active
\* changes no field of the record.
C35_SetOnlyAfterOwnLabel ==
    \A i \in ParsedTasks :
        LET tr == ParseOf(i)
        IN  \A k \in Visits(tr) :
              /\ \A f \in DetailFields :
                    Assigns(tr, k, f) =>
                        /\ After(tr, k).exam[f] = tr.text[k]
                        /\ \E j \in 1..(k - 1) :
                              /\ tr.text[j] = FieldLabel(f)
                              /\ \A m \in (j + 1)..(k - 1) :
                                    ~IsLabel(tr.text[m]) /\ ~TakesValue(tr, m)
              /\ Before(tr, k).currentLabel = EmptyString
                    => After(tr, k).exam = Before(tr, k).exam

\* a parse that met a value before any label, then the label Raum, then a text
\* it passed over, then the text that became the room
C35_Witness ==
    \E i \in ParsedTasks :
        LET tr == ParseOf(i)
        IN  /\ Len(tr.text) = 4
            /\ tr.text[1] = <<"102">> /\ Before(tr, 1).currentLabel = EmptyString
            /\ tr.text[2] = <<"Raum">>
            /\ tr.text[3] \in {<<"LONG120">>, <<"Raumplan">>}
            /\ Assigns(tr, 4, "Room")
            /\ examData[i].Room = <<"101">>

\* C36: whenever a visit of parseDetailPage enters a label into detailsSet, the
\* value handed to setExamField is the text of that visit, and it is not
\* empty, shorter than 100 bytes, no label of the vocabulary and without the
\* label it is stored under inside; so is every detail field of every record of
\* the output slice that has a value.
C36_StoredValuesAreValues ==
    /\ \A i \in ParsedTasks :
          LET tr == ParseOf(i)
          IN  \A k \in Visits(tr) :
                \A l \in After(tr, k).detailsSet \ Before(tr, k).detailsSet :
                    /\ After(tr, k).exam = setExamField(Before(tr, k).exam, l, tr.text[k])
                    /\ tr.text[k] # EmptyString
                    /\ ByteLen(tr.text[k]) < MaxValueText
                    /\ ~IsLabel(tr.text[k])
                    /\ ~TextContains(tr.text[k], l)
    /\ \A n \in 1..Len(examData) : \A f \in DetailFields :
          examData[n][f] # EmptyString =>
              /\ ByteLen(examData[n][f]) < MaxValueText
              /\ ~IsLabel(examData[n][f])
              /\ ~TextContains(examData[n][f], FieldLabel(f))

\* a parse that met the label Status, passed over a text of 120 bytes and
\* stored the next text, which contains another label but not Status
C36_Witness ==
    \E i \in ParsedTasks :
        LET tr == ParseOf(i)
        IN  /\ Len(tr.text) >= 3
            /\ tr.text[1] = <<"Status">>
            /\ tr.text[2] = <<"LONG120">>
            /\ tr.text[3] = <<"Raumplan">>
            /\ examData[i].DetailStatus = <<"Raumplan">>

\* the HeaderSeparator rule and the Data rule of a row's kept cells
HeaderRule(cells) == \E c \in 1..Len(cells) : HeaderCell(cells[c])
DataRule(cells) ==
    /\ Len(cells) >= 3
    /\ ContainsChar(cells[1], DotWords) /\ ContainsChar(cells[1], CommaWords)
    /\ ContainsChar(cells[1], ColonWords)

\* the class of a row: HeaderSeparator before Data, Noise otherwise
RowClass(cells) ==
    IF HeaderRule(cells) THEN "HeaderSeparator"
    ELSE IF DataRule(cells) THEN "Data" ELSE "Noise"

\* the n-th of a set of row numbers
NthRow(rows, n) == CHOOSE k \in rows : Cardinality({j \in rows : j <= k}) = n

\* C37: once the listing is read, the summary records are the records of the
\* rows main reads whose class is Data, one each and in the order of the page:
\* each comes from a row of at least 3 cells that has the date/time shape and
\* is no HeaderSeparator, and a row that satisfies the HeaderSeparator rule and
\* the Data rule, its class being HeaderSeparator, has no record.
C37_RecordsAreDataRows ==
    ListingRead =>
        LET rows == ExtractRows(doc)
            cells == [k \in 1..Len(rows) |-> ExtractCells(rows[k])]
            data == {k \in 1..Len(rows) : RowClass(cells[k]) = "Data"}
        IN  /\ Len(examsToFetch) = Cardinality(data)
            /\ \A n \in 1..Len(examsToFetch) :
                  LET from == cells[NthRow(data, n)]
                  IN  /\ Len(from) >= 3 /\ DataRule(from) /\ ~HeaderRule(from)
                      /\ examsToFetch[n].DateTime = from[1]
                      /\ examsToFetch[n].Location = from[2]
                      /\ examsToFetch[n].City = from[3]

\* the listing read held a row with the date/time shape whose location names
\* three places, and a Data row: the records are fewer than the shaped rows
C37_Witness ==
    /\ ListingRead
    /\ \E k \in 1..Len(ExtractRows(doc)) :
          LET cells == ExtractCells(ExtractRows(doc)[k])
          IN  HeaderRule(cells) /\ DataRule(cells)
    /\ Len(examsToFetch) >= 1
    /\ Len(examsToFetch) < Len(ShapedRows(doc))

\* C38: however the GET of the base page returns, with a response or with an
\* error, the step that follows sends the GET of the list page with the jar of
\* the base GET and does nothing else: in main the run goes on to the listing
\* (no log.Fatal), in a task nothing is stored, the task is not degraded and no
\* cause is logged, and the run is not ended.
C38_BaseFailureNotFatal ==
    [][ /\ (pcMain = "base" /\ pcMain' # "base") =>
              /\ pcMain' = "list"
              /\ mainRequests' =
                    Append(mainRequests,
                           Request("GET", "list", mainRequests[Len(mainRequests)].jar,
                                   NoAction, << >>))
        /\ \A i \in Tasks :
              (pc[i] = "base" /\ pc'[i] # "base") =>
                  /\ pc'[i] = "list"
                  /\ requests'[i] =
                        Append(requests[i],
                               Request("GET", "list", requests[i][Len(requests[i])].jar,
                                       NoAction, << >>))
                  /\ requests[i][Len(requests[i])].target = "base"
                  /\ outcome'[i] = "" /\ cause'[i] = ""
                  /\ examData' = examData /\ writes' = writes
                  /\ pcMain' = pcMain /\ wg' = wg /\ semaphore' = semaphore
      ]_vars

\* main has got its listing after the base GET returned, and a task whose base
\* GET returned waits for its listing, asked for with the jar of its base GET,
\* with nothing stored for it
C38_Witness ==
    /\ pcMain \in {"spawn", "wait"}
    /\ mainRequests[1].target = "base" /\ mainRequests[2].target = "list"
    /\ mainRequests[1].jar = mainRequests[2].jar
    /\ \E i \in Tasks :
          /\ pc[i] = "list"
          /\ Len(requests[i]) = 2
          /\ requests[i][1].target = "base" /\ requests[i][2].target = "list"
          /\ requests[i][1].jar = requests[i][2].jar
          /\ requests[i][1].jar = i
          /\ outcome[i] = "" /\ writes[i] = << >>

\* the redirects a task's list GET has been answered with and followed
RedirectsFollowed(i) == Len(ViaOf(i)) - 1

\* C39: while the list GET of a task is out and its chain, the next redirect
\* counted, has at most 20 redirects, the client follows that redirect and
\* does not return the too-many-redirects error.
C39_TwentyRedirectsFollowed ==
    \A i \in Tasks :
        (pc[i] = "list" /\ RedirectsFollowed(i) + 1 <= maxRedirects) =>
            /\ ENABLED TaskListRedirected(i)
            /\ ~ENABLED TaskListTooManyRedirects(i)

=============================================================================
